---- MODULE Spec2Model ----
(***************************************************************************)
(* CassFS: a FUSE filesystem whose durable state lives in three Cassandra  *)
(* tables (filesystem, filedata, fileref).  The model follows the store    *)
(* (Cass), the facade (CassFs) and the file handle (CassFileHandle).       *)
(*                                                                         *)
(* Representation.                                                         *)
(*  - A path string is the sequence of its "/"-separated segments, which   *)
(*    is what strings.Split(p, "/") returns: "" is <<"">>, "a" is <<"a">>, *)
(*    "/a" is <<"", "a">>, "d/a" is <<"d", "a">>.                          *)
(*  - A byte string is a sequence of small integers.                       *)
(*  - A value of the hash column is [k, v]: k tells the length class       *)
(*    ("none" empty, "sha" 64 bytes, "uuid" 16 bytes, "link" other) and v  *)
(*    the bytes.  SHA-512 is modelled as injective.                        *)
(*  - CQL INSERT and UPDATE are upserts, a counter UPDATE on a missing     *)
(*    row starts from 0, and a SELECT by partition key returns rows in     *)
(*    clustering order.                                                    *)
(*  - Go pointers to fuse.Attr and CassFileData are ids into the heaps     *)
(*    attrs and files; unreferenced cells are collected.                   *)
(***************************************************************************)
EXTENDS Integers, Sequences, FiniteSets, TLC

\* ---------------------------------------------------------------- bounds
\* BLOBSIZE is 1 MiB and FcacheDuration 60 s in the program; both are scaled
\* down here so that bodies of a few bytes straddle chunk boundaries and a
\* few clock ticks make an entry stale.
BLOBSIZE == 2
FcacheDuration == 1

MaxBody == 5
MaxTime == 2
MaxFiles == 2
MaxRefs == 2
MaxCalls == 3
MaxBlob == 7
MaxRefSteps == 6
MaxHandleSteps == 5
MaxCacheSteps == 4
MaxConcSteps == 10
MaxBefore == 3
MaxDirSteps == 6
MaxLookupSteps == 5
MaxListSteps == 5
MaxOrphanSteps == 4
MaxRenameSteps == 5
MaxAttrSteps == 4
MaxCopySteps == 4
MaxEvictSteps == 8
MaxLockSteps == 9
MaxUuidSteps == 6
MaxReadSteps == 4
MaxFlushSteps == 7
MaxRaceSteps == 5
MaxExclSteps == 8
MaxVolSteps == 4

\* ------------------------------------------------------------- constants
S_IFREG == 32768
S_IFDIR == 16384
S_IFLNK == 40960
S_IFMT == 61440
PermMask == 4095
HandleMask == 3584

VARIABLES
  filesystem,   \* table filesystem: rows [directory, name, hash, metadata]
  filedata,     \* table filedata: rows [hash, location, data]
  fileref,      \* table fileref: hash -> counter
  fileCache,    \* Cass.fileCache: path -> [Attr, Timestamp, Hash]
  uuidCache,    \* Cass.uuidCache: directory path -> uuid string
  fsCache,      \* CassFs.fileCache: path -> *CassFileData
  files,        \* heap of CassFileData records
  attrs,        \* heap of fuse.Attr structures
  hopen,        \* number of handles the kernel holds open on each record
  nextUuid,     \* number of UUIDs gocql.TimeUUID has handed out
  now,          \* time.Now().Unix()
  threads,      \* position and locals of each dispatch thread
  calls,        \* log of the content-layer calls (WriteFileData, ReadData)
  last,         \* the operation that completed last, with its result
  steps,        \* number of steps taken
  fault,        \* the database query that fails in the next call, if any
  prev,         \* tables and caches as the last path-level call found them
  mount,        \* table mount of the volume driver: name -> Mount
  hist          \* the completed operations of a scenario, in order

vars == <<filesystem, filedata, fileref, fileCache, uuidCache, fsCache, files,
          attrs, hopen, nextUuid, now, threads, calls, last, steps, fault, prev,
          mount, hist>>

\* ------------------------------------------------------------- utilities
RECURSIVE AndBits(_, _)
AndBits(x, y) ==
  IF x = 0 \/ y = 0 THEN 0
  ELSE (x % 2) * (y % 2) + 2 * AndBits(x \div 2, y \div 2)

OrBits(x, y) == x + y - AndBits(x, y)

AndNotBits(x, y) == x - AndBits(x, y)

Min(S) == CHOOSE x \in S : \A y \in S : x <= y

\* data[start:end] of Go
Slice(data, start, end) == SubSeq(data, start + 1, end)

RECURSIVE Repeat(_, _)
Repeat(b, n) == IF n <= 0 THEN <<>> ELSE <<b>> \o Repeat(b, n - 1)

Restrict(f, S) == [x \in (DOMAIN f) \cap S |-> f[x]]

Remove(f, x) == [y \in (DOMAIN f) \ {x} |-> f[y]]

Put(f, x, v) == [y \in (DOMAIN f) \cup {x} |-> IF y = x THEN v ELSE f[y]]

\* ------------------------------------------------------------ data model
EmptyHash == [k |-> "none", v |-> <<>>]

ShaSum(data) == [k |-> "sha", v |-> data]

UuidBytes(n) == [k |-> "uuid", v |-> <<n>>]

LinkBytes(target) ==
  IF target = <<>> THEN EmptyHash ELSE [k |-> "link", v |-> target]

HashLen(hash) == IF hash.k = "none" THEN 0 ELSE 1

RootDir == <<>>

ZeroAttr ==
  [Mode |-> 0, Size |-> 0, Uid |-> 0, Gid |-> 0, Atime |-> 0, Atimensec |-> 0,
   Mtime |-> 0, Mtimensec |-> 0, Ctime |-> 0]

\* json.Marshal(CassMetadata{Attr: attr}) and json.Unmarshal: every field of
\* fuse.Attr is an exported integer, so the blob carries the field values.
Marshal(attr) == [Attr |-> attr]

Unmarshal(blob) == blob.Attr

World ==
  [filesystem |-> filesystem, filedata |-> filedata, fileref |-> fileref,
   fileCache |-> fileCache, uuidCache |-> uuidCache, fsCache |-> fsCache,
   files |-> files, attrs |-> attrs, hopen |-> hopen, nextUuid |-> nextUuid,
   fault |-> fault]

\* --------------------------------------------------------------- tables
HasRow(w, dir, name) ==
  \E r \in w.filesystem : r.directory = dir /\ r.name = name

RowOf(w, dir, name) ==
  CHOOSE r \in w.filesystem : r.directory = dir /\ r.name = name

\* INSERT INTO filesystem (...) VALUES (...)
InsertRow(w, dir, name, hash, meta) ==
  [w EXCEPT !.filesystem =
     {r \in @ : ~(r.directory = dir /\ r.name = name)}
       \cup {[directory |-> dir, name |-> name, hash |-> hash, metadata |-> meta]}]

\* DELETE FROM filesystem WHERE ...
DeleteRow(w, dir, name) ==
  [w EXCEPT !.filesystem = {r \in @ : ~(r.directory = dir /\ r.name = name)}]

RefCount(w, hash) == IF hash \in DOMAIN w.fileref THEN w.fileref[hash] ELSE 0

incrementDataRef(w, hash) ==
  [w EXCEPT !.fileref = Put(@, hash, RefCount(w, hash) + 1)]

decrementDataRef(w, hash) ==
  [w EXCEPT !.fileref = Put(@, hash, RefCount(w, hash) - 1)]

\* ---------------------------------------------------------------- heaps
FreshId(f) == Min({i \in 1..(Cardinality(DOMAIN f) + 1) : i \notin DOMAIN f})

\* a new fuse.Attr on the heap
NewAttr(w, attr) ==
  LET id == FreshId(w.attrs)
  IN [w |-> [w EXCEPT !.attrs = Put(@, id, attr)], id |-> id]

\* ---------------------------------------------------------- Cass (store)
\* gocql.UUIDFromBytes succeeds on 16 bytes only
IsUuid(hash) == hash.k = "uuid"

\* UUID.String() of the parsed bytes
UuidString(hash) == hash.v

\* the lookups of FindDir: the first segment under "", every later one under
\* the UUID found before it
RECURSIVE FindDirWalk(_, _, _, _)
FindDirWalk(w, parent, paths, i) ==
  IF ~HasRow(w, parent, paths[i]) THEN [ret |-> RootDir, err |-> "NotFound"]
  ELSE LET hash == RowOf(w, parent, paths[i]).hash
       IN IF ~IsUuid(hash) THEN [ret |-> RootDir, err |-> "Other"]
          ELSE IF i = Len(paths) THEN [ret |-> UuidString(hash), err |-> "nil"]
          ELSE FindDirWalk(w, UuidString(hash), paths, i + 1)

FindDir(w, dir) ==
  IF dir \in DOMAIN w.uuidCache
  THEN [w |-> w, ret |-> w.uuidCache[dir], err |-> "nil"]
  ELSE LET r == FindDirWalk(w, RootDir, dir, 1)
       IN IF r.err # "nil" THEN [w |-> w, ret |-> RootDir, err |-> r.err]
          ELSE [w |-> [w EXCEPT !.uuidCache = Put(@, dir, r.ret)],
                ret |-> r.ret, err |-> "nil"]

\* path with one trailing "/" stripped
TrimSlash(path) ==
  IF Len(path) >= 2 /\ path[Len(path)] = ""
  THEN SubSeq(path, 1, Len(path) - 1) ELSE path

\* splitPath: (directory id, leaf name); an error of FindDir is only logged
\* and the directory id is then the empty string
splitPath(w, path) ==
  LET p == TrimSlash(path)
      n == Len(p)
  IN IF n >= 2 /\ ~(n = 2 /\ p[1] = "")
     THEN LET r == FindDir(w, SubSeq(p, 1, n - 1))
          IN [w |-> r.w, parent |-> r.ret, child |-> p[n]]
     ELSE IF n >= 2 THEN [w |-> w, parent |-> RootDir, child |-> p[2]]
     ELSE [w |-> w, parent |-> RootDir, child |-> p[1]]

\* an entry is still served at the age of the TTL
Fresh_Late(entry) == now - entry.Timestamp <= FcacheDuration

Fresh(entry) == now - entry.Timestamp < FcacheDuration

\* the SELECT of GetFiledata and the fill of the metadata cache
GetFiledataMiss(w, sp, name) ==
  IF w.fault = "lookup" THEN [w |-> w, err |-> "Other", ret |-> 0]
  ELSE IF ~HasRow(w, sp.parent, sp.child)
  THEN [w |-> w, err |-> "NotFound", ret |-> 0]
  ELSE LET row == RowOf(w, sp.parent, sp.child)
           a == NewAttr(w, Unmarshal(row.metadata))
           ret == [Attr |-> a.id, Timestamp |-> now, Hash |-> row.hash]
       IN [w |-> [a.w EXCEPT !.fileCache = Put(@, name, ret)],
           err |-> "nil", ret |-> ret]

GetFiledata(w0, name) ==
  LET sp == splitPath(w0, name)
      w == sp.w
  IN IF name \in DOMAIN w.fileCache
     THEN IF Fresh(w.fileCache[name])
          THEN [w |-> w, err |-> "nil", ret |-> w.fileCache[name]]
          ELSE GetFiledataMiss([w EXCEPT !.fileCache = Remove(@, name)], sp, name)
     ELSE GetFiledataMiss(w, sp, name)

\* the row is written although the INSERT reports an error
CreateFile_Late(w0, name, attr, hash) ==
  LET sp == splitPath(w0, name)
      w == InsertRow(sp.w, sp.parent, sp.child, hash, Marshal(attr))
  IN [w |-> IF HashLen(hash) > 0 THEN incrementDataRef(w, hash) ELSE w,
      err |-> IF w0.fault = "insert" THEN "Other" ELSE "nil"]

CreateFile(w0, name, attr, hash) ==
  LET sp == splitPath(w0, name)
      w == InsertRow(sp.w, sp.parent, sp.child, hash, Marshal(attr))
  IN IF w0.fault = "insert" THEN [w |-> sp.w, err |-> "Other"]
     ELSE [w |-> IF HashLen(hash) > 0 THEN incrementDataRef(w, hash) ELSE w,
           err |-> "nil"]

\* Rename: SELECT old, INSERT new, DELETE old; the DELETE's error is dropped
Rename(w0, oldName, newName) ==
  LET so == splitPath(w0, oldName)
      sn == splitPath(so.w, newName)
      w == sn.w
  IN IF ~HasRow(w, so.parent, so.child) THEN [w |-> w, err |-> "NotFound"]
     ELSE LET row == RowOf(w, so.parent, so.child)
              w1 == InsertRow(w, sn.parent, sn.child, row.hash, row.metadata)
          IN [w |-> DeleteRow(w1, so.parent, so.child), err |-> "nil"]

\* UPDATE filesystem SET metadata = ? WHERE ...: an upsert that leaves the
\* hash column of an existing row alone
UpdateMetadata(w, dir, name, meta) ==
  InsertRow(w, dir, name,
            IF HasRow(w, dir, name) THEN RowOf(w, dir, name).hash ELSE EmptyHash,
            meta)

\* WriteMetadata: evict the path, then UPDATE the metadata column
WriteMetadata(w0, path, attr) ==
  LET sp == splitPath(w0, path)
      w == [sp.w EXCEPT !.fileCache = Remove(@, path)]
  IN [w |-> UpdateMetadata(w, sp.parent, sp.child, Marshal(attr)), err |-> "nil"]

\* the rows the loop of WriteFileData inserts, from (start, end) on
RECURSIVE Chunks(_, _, _, _)
Chunks(hash, data, start, end) ==
  LET row == [hash |-> hash, location |-> start, data |-> Slice(data, start, end)]
      start2 == start + BLOBSIZE + 1
      end2 == IF end + BLOBSIZE + 1 > Len(data) THEN Len(data)
              ELSE end + BLOBSIZE + 1
  IN IF start2 > Len(data) THEN {row}
     ELSE {row} \cup Chunks(hash, data, start2, end2)

\* INSERT INTO filedata of a set of rows with distinct keys
InsertData(w, rows) ==
  [w EXCEPT !.filedata =
     {r \in @ : ~\E n \in rows : n.hash = r.hash /\ n.location = r.location}
       \cup rows]

HasData_NoProbe(w, hash) == FALSE

\* SELECT hash FROM filedata WHERE hash = ?
HasData(w, hash) == \E r \in w.filedata : r.hash = hash

\* the loop of WriteFileData: it returns at the first INSERT that fails and
\* leaves the rows it has inserted
WriteChunks(w, f, hash, rows) ==
  IF f = "write"
  THEN [w |-> w, hash |-> hash, err |-> "Other", inserted |-> {}]
  ELSE IF f = "write_late" /\ Cardinality(rows) > 1
  THEN [w |-> InsertData(w, {r \in rows : r.location = 0}), hash |-> hash,
        err |-> "Other", inserted |-> {r \in rows : r.location = 0}]
  ELSE [w |-> InsertData(w, rows), hash |-> hash, err |-> "nil",
        inserted |-> rows]

WriteFileData(w, data) ==
  LET hash == ShaSum(data)
      end == IF BLOBSIZE > Len(data) THEN Len(data) ELSE BLOBSIZE
  IN IF w.fault = "probe"
     THEN [w |-> w, hash |-> hash, err |-> "Other", inserted |-> {}]
     ELSE IF HasData(w, hash)
     THEN [w |-> w, hash |-> hash, err |-> "nil", inserted |-> {}]
     ELSE WriteChunks(w, w.fault, hash, Chunks(hash, data, 0, end))

\* the rows of one hash in clustering order, their data appended
RECURSIVE Concat(_)
Concat(rows) ==
  IF rows = {} THEN <<>>
  ELSE LET first == CHOOSE r \in rows : \A q \in rows : r.location <= q.location
       IN first.data \o Concat(rows \ {first})

\* the rows the iterator of ReadData yields: its error is never asked for,
\* so a query that fails yields no row, or the first rows only
Scanned(rows, f) ==
  IF f = "read" THEN {}
  ELSE IF f = "read_partial"
  THEN {r \in rows : \A q \in rows : r.location <= q.location}
  ELSE rows

ReadData(w, hash) == Concat(Scanned({r \in w.filedata : r.hash = hash}, w.fault))

\* Read: the groupcache is disabled by default (CacheEnabled is false)
Read(w, hash) == [data |-> ReadData(w, hash), err |-> "nil"]

UpdateFile_Skip(w0, fid) ==
  [w |-> w0, err |-> "nil", inserted |-> {}, hash |-> w0.files[fid].Hash]

\* UpdateFile from the counters on: the old hash is decremented whether or
\* not the increment of the new one failed
UpdateRefs(w, f, old, wr) ==
  LET w3 == IF f = "incref" THEN w ELSE incrementDataRef(w, wr.hash)
      w4 == IF HashLen(old.Hash) > 0 THEN decrementDataRef(w3, old.Hash) ELSE w3
  IN IF f = "incref"
     THEN [w |-> w4, err |-> "Other", inserted |-> wr.inserted,
           hash |-> wr.hash]
     ELSE [w |-> [w4 EXCEPT !.fileCache = Remove(@, old.Name)], err |-> "nil",
           inserted |-> wr.inserted, hash |-> wr.hash]

\* UpdateFile from the UPDATE of the row on
UpdateRow(w, f, old, dir, name, wr) ==
  IF f = "update"
  THEN [w |-> w, err |-> "Other", inserted |-> wr.inserted, hash |-> wr.hash]
  ELSE UpdateRefs(InsertRow(w, dir, name, wr.hash, Marshal(w.attrs[old.Attr])),
                  f, old, wr)

\* UpdateFile on the record fid: f.Hash is set as soon as the body is written
UpdateFile(w0, fid) ==
  LET f == w0.files[fid]
      sp == splitPath(w0, f.Name)
      wr == WriteFileData(sp.w, f.Data)
  IN IF wr.err # "nil"
     THEN [w |-> wr.w, err |-> wr.err, inserted |-> wr.inserted,
           hash |-> f.Hash]
     ELSE UpdateRow([wr.w EXCEPT !.files[fid].Hash = wr.hash], w0.fault, f,
                    sp.parent, sp.child, wr)

DeleteFile(w0, name) ==
  LET sp == splitPath(w0, name)
      w == sp.w
  IN IF ~HasRow(w, sp.parent, sp.child) THEN [w |-> w, err |-> "NotFound"]
     ELSE LET hash == RowOf(w, sp.parent, sp.child).hash
              w1 == DeleteRow(w, sp.parent, sp.child)
              w2 == IF HashLen(hash) > 0 THEN decrementDataRef(w1, hash) ELSE w1
          IN [w |-> [w2 EXCEPT !.fileCache = Remove(@, name)], err |-> "nil"]

\* the loop of OpenDir over the rows of one directory
RECURSIVE OpenDirFill(_, _, _)
OpenDirFill(w, dir, rows) ==
  IF rows = {} THEN w
  ELSE LET row == CHOOSE r \in rows : TRUE
           a == NewAttr(w, Unmarshal(row.metadata))
           key == dir \o <<row.name>>
           entry == [Attr |-> a.id, Timestamp |-> now, Hash |-> row.hash]
       IN OpenDirFill([a.w EXCEPT !.fileCache = Put(@, key, entry)], dir,
                      rows \ {row})

\* OpenDir: an error of FindDir is only logged, and the rows of directory ""
\* are listed then
OpenDir(w0, dir) ==
  LET fd == FindDir(w0, dir)
      rows == {r \in fd.w.filesystem : r.directory = fd.ret}
  IN [w |-> OpenDirFill(fd.w, dir, rows), err |-> "nil",
      ret |-> {[Mode |-> Unmarshal(r.metadata).Mode, Name |-> r.name] : r \in rows}]

\* CopyFile from its INSERT on: when the UPDATE of fileref fails the new
\* row is deleted, and the error of that DELETE is dropped
CopyInsert(w, f, dir, name, row) ==
  IF f = "insert" THEN [w |-> w, err |-> "Other"]
  ELSE IF f = "incref"
  THEN [w |-> DeleteRow(InsertRow(w, dir, name, row.hash, row.metadata),
                        dir, name),
        err |-> "Other"]
  ELSE IF f = "incref_delete"
  THEN [w |-> InsertRow(w, dir, name, row.hash, row.metadata), err |-> "Other"]
  ELSE [w |-> incrementDataRef(InsertRow(w, dir, name, row.hash, row.metadata),
                               row.hash),
        err |-> "nil"]

\* CopyFile from its SELECT on
CopySelect(w, f, so, sn) ==
  IF f = "lookup" THEN [w |-> w, err |-> "Other"]
  ELSE IF ~HasRow(w, so.parent, so.child) THEN [w |-> w, err |-> "NotFound"]
  ELSE CopyInsert(w, f, sn.parent, sn.child, RowOf(w, so.parent, so.child))

\* CopyFile: SELECT orig, INSERT newFile, UPDATE fileref
CopyFile(w0, orig, newFile) ==
  LET so == splitPath(w0, orig)
      sn == splitPath(so.w, newFile)
  IN CopySelect(sn.w, w0.fault, so, sn)

MakeDirectory(w0, directory, attr) ==
  LET sp == splitPath(w0, directory)
      uuid == UuidBytes(sp.w.nextUuid + 1)
      w == [sp.w EXCEPT !.nextUuid = @ + 1]
  IN IF w0.fault = "insert" THEN [w |-> w, err |-> "Other"]
     ELSE [w |-> InsertRow(w, sp.parent, sp.child, uuid, Marshal(attr)),
           err |-> "nil"]

\* ------------------------------------------------- CassFileData, handles
NewFileData(name, hash, data, attr) ==
  [Refs |-> 0, Name |-> name, Data |-> data, Hash |-> hash, Dirty |-> FALSE,
   Attr |-> attr]

\* a new CassFileData on the heap
NewFile(w, fd) ==
  LET id == FreshId(w.files)
  IN [w |-> [w EXCEPT !.files = Put(@, id, fd), !.hopen = Put(@, id, 0)],
      id |-> id]

\* NewFileHandle: one more reference, and one more handle in the kernel's hands
NewFileHandle(w, fid) ==
  [w EXCEPT !.files[fid].Refs = @ + 1, !.hopen[fid] = @ + 1]

\* the heap cells some pointer still reaches
FilesOf(th) ==
  {th[t].fd : t \in {u \in DOMAIN th : th[u].fd # 0}}

AttrsOf(th) ==
  {th[t].attr : t \in {u \in DOMAIN th : th[u].attr # 0}}

LiveFiles(w, th) ==
  {f \in DOMAIN w.files :
     \/ w.hopen[f] > 0
     \/ \E p \in DOMAIN w.fsCache : w.fsCache[p] = f
     \/ f \in FilesOf(th)}

LiveAttrs(w, th) ==
  {w.fileCache[p].Attr : p \in DOMAIN w.fileCache}
    \cup {w.files[f].Attr : f \in LiveFiles(w, th)}
    \cup AttrsOf(th)

\* the state after a step: the world w, the threads th, the result l
AssignWorld(w, th, l) ==
  /\ filesystem' = w.filesystem
  /\ filedata' = w.filedata
  /\ fileref' = w.fileref
  /\ fileCache' = w.fileCache
  /\ uuidCache' = w.uuidCache
  /\ fsCache' = w.fsCache
  /\ files' = Restrict(w.files, LiveFiles(w, th))
  /\ hopen' = Restrict(w.hopen, LiveFiles(w, th))
  /\ attrs' = Restrict(w.attrs, LiveAttrs(w, th))
  /\ nextUuid' = w.nextUuid
  /\ threads' = th
  /\ last' = l
  /\ fault' = "none"
  /\ UNCHANGED mount

\* what a path-level call finds when it starts
Snapshot ==
  [filesystem |-> filesystem, filedata |-> filedata, fileref |-> fileref,
   fileCache |-> fileCache, uuidCache |-> uuidCache, fsCache |-> fsCache,
   fault |-> fault, now |-> now]

NoPrev ==
  [filesystem |-> {}, filedata |-> {}, fileref |-> <<>>,
   fileCache |-> <<>>, uuidCache |-> <<>>, fsCache |-> <<>>,
   fault |-> "none", now |-> 0]

Assign(w, th, l) == AssignWorld(w, th, l) /\ prev' = NoPrev

Commit(w, th, l) == Assign(w, th, l) /\ UNCHANGED <<now, calls>>

\* the end of a path-level call
Call(w, th, l) ==
  AssignWorld(w, th, l) /\ prev' = Snapshot /\ UNCHANGED <<now, calls>>

\* ------------------------------------------------------- CassFileHandle
WriteGap(f, data, offset) ==
  [f EXCEPT !.Data = (f.Data \o Repeat(0, offset - Len(f.Data))) \o data]

\* Write: the new record and whether attr.Size is set to the new length
HandleWrite(f, data, offset) ==
  IF offset > Len(f.Data)
  THEN [f |-> WriteGap(f, data, offset), size |-> FALSE]
  ELSE [f |-> [f EXCEPT !.Dirty = TRUE,
                        !.Data = Slice(f.Data, 0, offset) \o data],
        size |-> TRUE]

HandleTruncate(f, size) == [f EXCEPT !.Data = Slice(f.Data, 0, size)]

HandleChmodMode(mode, mod) == OrBits(AndBits(mode, HandleMask), mod)

\* ---------------------------------------------------------------- inputs
Paths == {<<"a">>, <<"b">>}

Threads == {1, 2}

WriteData == {<<1>>, <<2, 2, 2>>}

Offsets == {0, 1, MaxBody - 1}

\* one body of every length, each byte telling its position
Bodies == {[i \in 1..n |-> i] : n \in 0..MaxBlob}

CreateModes == {420}

DirModes == {493}

\* a directory, a path in it, and a path beside it
DirPaths == {<<"d">>, <<"d", "x">>, <<"a">>}

ChmodModes == {384}

Owners == {1000}

Nanos == {5}

Targets == {<<7>>}

IdleThread ==
  [pc |-> "idle", name |-> <<>>, fd |-> 0, attr |-> 0, hash |-> EmptyHash,
   mode |-> 0, meta |-> ZeroAttr, quiet |-> FALSE, dirid |-> RootDir]

Idle == \A t \in Threads : threads[t].pc = "idle"

Init ==
  /\ filesystem = {}
  /\ filedata = {}
  /\ fileref = <<>>
  /\ fileCache = <<>>
  /\ uuidCache = <<>>
  /\ fsCache = <<>>
  /\ files = <<>>
  /\ attrs = <<>>
  /\ hopen = <<>>
  /\ nextUuid = 0
  /\ now = 0
  /\ threads = [t \in Threads |-> IdleThread]
  /\ calls = <<>>
  /\ last = [op |-> "Init"]
  /\ steps = 0
  /\ fault = "none"
  /\ hist = <<>>
  /\ prev = NoPrev
  /\ mount = <<>>

\* ------------------------------------------------------- CassFs (facade)
\* the row the store addresses under path p
HasRowAt(p) ==
  LET sp == splitPath(World, p) IN HasRow(World, sp.parent, sp.child)

RowAt(p) ==
  LET sp == splitPath(World, p) IN RowOf(World, sp.parent, sp.child)

IsDir(attr) == AndBits(attr.Mode, S_IFMT) = S_IFDIR

IsDirAt(p) == HasRowAt(p) /\ IsDir(Unmarshal(RowAt(p).metadata))

\* the parent of p is the root or has a directory row
ParentIsDir(p) == IF Len(p) = 1 THEN TRUE ELSE IsDirAt(SubSeq(p, 1, Len(p) - 1))

\* what a lookup of the path meets in the tables and caches p: the row, a
\* fresh cache entry, an open-file record, the query that is about to fail
PreIn(p, name) ==
  LET sp == splitPath(p, name)
      rows == {r \in p.filesystem :
                 r.directory = sp.parent /\ r.name = sp.child}
      fd == FindDir(p, name)
      pfd == FindDir(p, SubSeq(name, 1, Len(name) - 1))
  IN [row |-> rows # {},
      entry |-> rows,
      pdir |-> IF Len(name) = 1 THEN {RootDir}
               ELSE IF pfd.err = "nil" THEN {pfd.ret} ELSE {},
      dirid |-> IF fd.err = "nil" THEN {fd.ret} ELSE {},
      fresh |-> /\ name \in DOMAIN p.fileCache
                /\ p.now - p.fileCache[name].Timestamp < FcacheDuration,
      open |-> name \in DOMAIN p.fsCache,
      fault |-> p.fault,
      tables |-> <<p.filesystem, p.filedata, p.fileref>>,
      caches |-> <<p.fileCache, p.uuidCache>>,
      fsCache |-> p.fsCache]

\* what the last call met
LastPre == PreIn(prev, last.name)

\* the record Create builds after CreateFile, cached under name, and its handle
CreateRecord(w0, name, attr) ==
  LET a == NewAttr(w0, attr)
      n == NewFile(a.w, NewFileData(name, EmptyHash, <<>>, a.id))
      w1 == [n.w EXCEPT !.fsCache = Put(@, name, n.id)]
  IN [w |-> NewFileHandle(w1, n.id), id |-> n.id]

\* Create, from its first statement to its return
CreateCall(name, mode) ==
  /\ LET g == GetFiledata(World, name)
     IN IF g.err = "nil"
        THEN Call(g.w, threads,
                    [op |-> "Create", name |-> name, status |-> "EEXIST"])
        ELSE IF g.err # "NotFound"
        THEN Call(g.w, threads,
                    [op |-> "Create", name |-> name, status |-> "EIO"])
        ELSE /\ Cardinality(DOMAIN files) < MaxFiles
             /\ LET attr == [ZeroAttr EXCEPT !.Mode = OrBits(S_IFREG, mode)]
                    c == CreateFile(g.w, name, attr, EmptyHash)
                    r == CreateRecord(c.w, name, attr)
                IN IF c.err # "nil"
                   THEN Call(c.w, threads,
                               [op |-> "Create", name |-> name, status |-> "EIO"])
                   ELSE Call(r.w, threads,
                               [op |-> "Create", name |-> name, status |-> "OK",
                                fid |-> r.id, absent |-> ~HasRowAt(name), mode |-> mode])

Create(name, mode) == Idle /\ CreateCall(name, mode)

\* the record Open builds on a miss, cached under name, and its handle
OpenRecord(w0, name, mdata, data) ==
  LET n == NewFile(w0, NewFileData(name, mdata.Hash, data, mdata.Attr))
      w1 == [n.w EXCEPT !.fsCache = Put(@, name, n.id)]
  IN [w |-> NewFileHandle(w1, n.id), id |-> n.id]

Open(name) ==
  /\ Idle
  /\ IF name \in DOMAIN fsCache
     THEN /\ files[fsCache[name]].Refs < MaxRefs
          /\ Call(NewFileHandle(World, fsCache[name]), threads,
                    [op |-> "Open", name |-> name, status |-> "OK",
                     fid |-> fsCache[name], hit |-> TRUE])
     ELSE LET g == GetFiledata(World, name)
          IN IF g.err # "nil"
             THEN Call(g.w, threads,
                         [op |-> "Open", name |-> name,
                          status |-> IF g.err = "NotFound" THEN "ENOENT" ELSE "EIO"])
             ELSE /\ Cardinality(DOMAIN files) < MaxFiles
                  /\ LET d == Read(g.w, g.ret.Hash)
                         r == OpenRecord(g.w, name, g.ret, d.data)
                     IN Call(r.w, threads,
                               [op |-> "Open", name |-> name, status |-> "OK",
                                fid |-> r.id, hit |-> FALSE])

\* CassFileHandle.Release does nothing; the kernel drops its handle
HRelease(fid) ==
  /\ fid \in DOMAIN files
  /\ hopen[fid] > 0
  /\ Commit([World EXCEPT !.hopen[fid] = @ - 1], threads,
            [op |-> "HRelease", fid |-> fid, name |-> files[fid].Name])

\* CassFs.Release(name) drops the cache slot of the path whatever the
\* record's Refs.  Nothing in the sources calls it.
Release(name) ==
  /\ name \in DOMAIN fsCache
  /\ Commit([World EXCEPT !.fsCache = Remove(@, name)], threads,
            [op |-> "Release", name |-> name])

Unlink(name) ==
  /\ Idle
  /\ LET d == DeleteFile(World, name)
     IN Call(d.w, threads,
               [op |-> "Unlink", name |-> name,
                status |-> IF d.err = "nil" THEN "OK" ELSE "EIO"])

\* ------------------------------------------- CassFileHandle, as actions
HasHandle(fid) == fid \in DOMAIN files /\ hopen[fid] > 0

HWrite(fid, data, offset) ==
  /\ Idle
  /\ HasHandle(fid)
  /\ offset + Len(data) <= MaxBody
  /\ LET r == HandleWrite(files[fid], data, offset)
         w1 == [World EXCEPT !.files[fid] = r.f]
         w2 == IF r.size
               THEN [w1 EXCEPT !.attrs[r.f.Attr].Size = Len(r.f.Data)] ELSE w1
     IN Commit(w2, threads,
               [op |-> "Write", fid |-> fid, name |-> files[fid].Name,
                status |-> "OK", data |-> data, offset |-> offset,
                body |-> files[fid].Data, ret |-> Len(data), changed |-> TRUE])

\* Flush: FlushFile is UpdateFile; the Dirty flag is not written
HFlush(fid) ==
  /\ Idle
  /\ HasHandle(fid)
  /\ IF ~files[fid].Dirty
     THEN Commit(World, threads,
                 [op |-> "Flush", fid |-> fid, name |-> files[fid].Name,
                  status |-> "OK", wasDirty |-> FALSE, db |-> FALSE])
     ELSE LET u == UpdateFile(World, fid)
          IN Commit(u.w, threads,
                    [op |-> "Flush", fid |-> fid, name |-> files[fid].Name,
                     status |-> IF u.err = "nil" THEN "OK" ELSE "EIO",
                     wasDirty |-> TRUE, db |-> TRUE,
                     refs |-> fileref, old |-> files[fid].Hash,
                     held |-> {r.hash : r \in PreIn(Snapshot, files[fid].Name).entry}])

\* Truncate: Data[:size]; sizes beyond the length of the body are left out
HTruncate(fid, size) ==
  /\ Idle
  /\ HasHandle(fid)
  /\ size <= Len(files[fid].Data)
  /\ Commit([World EXCEPT !.files[fid] = HandleTruncate(@, size)], threads,
            [op |-> "Truncate", fid |-> fid, name |-> files[fid].Name,
             status |-> "OK", size |-> size,
             changed |-> size < Len(files[fid].Data)])

HChmod(fid, mod) ==
  /\ Idle
  /\ HasHandle(fid)
  /\ LET a == files[fid].Attr
         mode == HandleChmodMode(attrs[a].Mode, mod)
     IN Commit([World EXCEPT !.attrs[a].Mode = mode,
                             !.files[fid].Dirty = (@ \/ mode # attrs[a].Mode)],
               threads,
               [op |-> "HChmod", fid |-> fid, name |-> files[fid].Name,
                status |-> "OK", changed |-> mode # attrs[a].Mode,
                arg |-> mod, old |-> attrs[a]])

HChown(fid, uid, gid) ==
  /\ Idle
  /\ HasHandle(fid)
  /\ LET a == files[fid].Attr
         changed == attrs[a].Uid # uid \/ attrs[a].Gid # gid
     IN Commit([World EXCEPT !.attrs[a].Uid = uid, !.attrs[a].Gid = gid,
                             !.files[fid].Dirty = (@ \/ changed)],
               threads,
               [op |-> "HChown", fid |-> fid, name |-> files[fid].Name,
                status |-> "OK", changed |-> changed,
                arg |-> <<uid, gid>>, old |-> attrs[a]])

HUtimens(fid, ansec, mnsec) ==
  /\ Idle
  /\ HasHandle(fid)
  /\ LET a == files[fid].Attr
     IN Commit([World EXCEPT !.attrs[a].Atimensec = ansec,
                             !.attrs[a].Mtimensec = mnsec],
               threads,
               [op |-> "HUtimens", fid |-> fid, name |-> files[fid].Name,
                status |-> "OK",
                changed |-> (attrs[a].Atimensec # ansec
                               \/ attrs[a].Mtimensec # mnsec)])

\* ---------------------------------------------- CassFs, path-level calls
\* every error reported as EIO
Errno_Flat(err) == IF err = "nil" THEN "OK" ELSE "EIO"

Errno(err) == IF err = "nil" THEN "OK" ELSE IF err = "NotFound" THEN "ENOENT" ELSE "EIO"

\* CassFs.options: the mode and the owner the mount was given
MountOptions == [Mode |-> 493, Uid |-> 1000, Gid |-> 1000]

RootAttr ==
  [ZeroAttr EXCEPT !.Mode = OrBits(S_IFDIR, MountOptions.Mode),
                   !.Uid = MountOptions.Uid, !.Gid = MountOptions.Gid]

GetAttr(name) ==
  /\ Idle
  /\ IF name = <<"">>
     THEN Call(World, threads,
                 [op |-> "GetAttr", name |-> name, status |-> "OK",
                  attr |-> RootAttr])
     ELSE LET g == GetFiledata(World, name)
          IN Call(g.w, threads,
                    [op |-> "GetAttr", name |-> name, status |-> Errno(g.err),
                     attr |-> IF g.err = "nil" THEN g.w.attrs[g.ret.Attr]
                              ELSE ZeroAttr,
                     ts |-> IF g.err = "nil" THEN g.ret.Timestamp ELSE 0])

FsOpenDir(name) ==
  /\ Idle
  /\ LET o == OpenDir(World, name)
     IN Call(o.w, threads,
               [op |-> "OpenDir", name |-> name, status |-> Errno(o.err),
                ret |-> o.ret])

\* Rename: GetAttr of the source, then the store's Rename
FsRename(oldName, newName) ==
  /\ Idle
  /\ LET g == GetFiledata(World, oldName)
     IN IF g.err # "nil"
        THEN Call(g.w, threads,
                    [op |-> "Rename", name |-> oldName, to |-> newName,
                     status |-> Errno(g.err)])
        ELSE LET r == Rename(g.w, oldName, newName)
             IN Call(r.w, threads,
                       [op |-> "Rename", name |-> oldName, to |-> newName,
                        status |-> IF r.err = "nil" THEN "OK" ELSE "EIO"])

Link(orig, newName) ==
  /\ Idle
  /\ LET c == CopyFile(World, orig, newName)
     IN Call(c.w, threads,
               [op |-> "Link", name |-> orig, to |-> newName,
                status |-> IF c.err = "nil" THEN "OK" ELSE "ERR"])

\* Symlink, from its first statement to its return
SymlinkCall(pointedTo, linkName) ==
  /\ LET attr == [ZeroAttr EXCEPT !.Mode = OrBits(S_IFLNK, 511), !.Ctime = now]
         c == CreateFile(World, linkName, attr, LinkBytes(pointedTo))
     IN Call(c.w, threads,
               [op |-> "Symlink", name |-> linkName, status |-> Errno(c.err),
                target |-> pointedTo])

Symlink(pointedTo, linkName) == Idle /\ SymlinkCall(pointedTo, linkName)

\* Chmod, Chown, Utimens of a path: the Attr of the entry GetFiledata returned
\* is changed in place to newAttr, then WriteMetadata stores it
SetAttr(op, name, arg, NewValue(_)) ==
  /\ Idle
  /\ LET g == GetFiledata(World, name)
     IN IF g.err # "nil"
        THEN Call(g.w, threads, [op |-> op, name |-> name, status |-> "EIO",
                   arg |-> arg])
        ELSE LET a == g.ret.Attr
                 w1 == [g.w EXCEPT !.attrs[a] = NewValue(@)]
                 m == WriteMetadata(w1, name, w1.attrs[a])
             IN Call(m.w, threads,
                       [op |-> op, name |-> name, status |-> Errno(m.err),
                      arg |-> arg])

ChmodAttr(attr, mode) ==
  [attr EXCEPT !.Mode = OrBits(AndNotBits(attr.Mode, PermMask), mode)]

Chmod(name, mode) ==
  LET NewValue(attr) == ChmodAttr(attr, mode)
  IN SetAttr("Chmod", name, mode, NewValue)

\* a uint32 id is written as the int32 with the same bits, so that
\* 0xFFFFFFFF is -1 and int32(uid) is uid itself
ChownAttr(attr, uid, gid) ==
  [attr EXCEPT !.Uid = IF uid > 0 THEN uid ELSE @,
               !.Gid = IF gid > 0 THEN gid ELSE @]

Chown(name, uid, gid) ==
  LET NewValue(attr) == ChownAttr(attr, uid, gid)
  IN SetAttr("Chown", name, <<uid, gid>>, NewValue)

UtimensAttr(attr, asec, ansec, msec, mnsec) ==
  [attr EXCEPT !.Atime = asec, !.Atimensec = ansec,
               !.Mtime = msec, !.Mtimensec = mnsec]

Utimens(name, asec, ansec, msec, mnsec) ==
  LET NewValue(attr) == UtimensAttr(attr, asec, ansec, msec, mnsec)
  IN SetAttr("Utimens", name, <<asec, ansec, msec, mnsec>>, NewValue)

\* time.Now() moves on
Tick ==
  /\ Idle
  /\ now < MaxTime
  /\ now' = now + 1
  /\ UNCHANGED <<filesystem, filedata, fileref, fileCache, uuidCache, fsCache,
                 files, attrs, hopen, nextUuid, threads, calls, last, fault,
                 prev, mount>>

\* the database fails at one query of the next call
Faults == {"lookup", "insert"}

\* the queries of UpdateFile that may fail: the probe and the INSERTs of
\* WriteFileData, the UPDATE of the row, the UPDATE of the counter
FlushFaults == {"probe", "write", "write_late", "update", "incref"}

\* the SELECT of ReadData fails at once, or after its first row
ReadFaults == {"read", "read_partial"}

\* the queries of CopyFile that may fail: the SELECT, the INSERT, the UPDATE
\* of the counter, and that UPDATE together with the DELETE that follows it
CopyFaults == {"lookup", "insert", "incref", "incref_delete"}

Break(f) ==
  /\ Idle
  /\ fault = "none"
  /\ fault' = f
  /\ UNCHANGED <<filesystem, filedata, fileref, fileCache, uuidCache, fsCache,
                 files, attrs, hopen, nextUuid, now, threads, calls, last,
                 prev, mount>>

\* Read: Data[off:end] with end cut to the length of the body; the slice
\* expression panics when off is beyond end
HRead(fid, n, off) ==
  /\ Idle
  /\ HasHandle(fid)
  /\ LET data == files[fid].Data
         end == IF off + n > Len(data) THEN Len(data) ELSE off + n
     IN Commit(World, threads,
               [op |-> "Read", fid |-> fid, name |-> files[fid].Name,
                status |-> IF off > end THEN "panic" ELSE "OK",
                n |-> n, off |-> off,
                out |-> IF off > end THEN <<>> ELSE Slice(data, off, end),
                file |-> files[fid], attr |-> attrs[files[fid].Attr]])

\* Readlink: string(meta.Hash)
Readlink(name) ==
  /\ Idle
  /\ LET g == GetFiledata(World, name)
     IN Commit(g.w, threads,
               [op |-> "Readlink", name |-> name,
                status |-> IF g.err = "nil" THEN "OK" ELSE "EIO",
                out |-> IF g.err = "nil" THEN g.ret.Hash.v ELSE <<>>])

\* Mkdir, from its first statement to its return
MkdirCall(path, mode) ==
  /\ LET g == GetFiledata(World, path)
     IN IF g.err = "nil"
        THEN Call(g.w, threads,
                    [op |-> "Mkdir", name |-> path, status |-> "EEXIST"])
        ELSE LET attr == [ZeroAttr EXCEPT !.Mode = OrBits(S_IFDIR, mode)]
                 m == MakeDirectory(g.w, path, attr)
             IN Call(m.w, threads,
                       [op |-> "Mkdir", name |-> path,
                        status |-> IF m.err = "nil" THEN "OK" ELSE "EIO", mode |-> mode,
                        uuid |-> UuidBytes(nextUuid + 1)])

Mkdir(path, mode) == Idle /\ MkdirCall(path, mode)

\* Rmdir, from its first statement to its return
RmdirCall(path) ==
  /\ LET g == GetFiledata(World, path)
     IN IF g.err # "nil"
        THEN Call(g.w, threads,
                    [op |-> "Rmdir", name |-> path, status |-> "EIO"])
        ELSE IF ~IsDir(g.w.attrs[g.ret.Attr])
        THEN Call(g.w, threads,
                    [op |-> "Rmdir", name |-> path, status |-> "ENOTDIR"])
        ELSE LET o == OpenDir(g.w, path)
             IN IF o.ret # {}
                THEN Call(o.w, threads,
                            [op |-> "Rmdir", name |-> path,
                             status |-> "ENOTEMPTY"])
                ELSE LET d == DeleteFile(o.w, path)
                     IN Call(d.w, threads,
                               [op |-> "Rmdir", name |-> path,
                                status |-> IF d.err = "nil" THEN "OK"
                                           ELSE Errno(d.err)])

Rmdir(path) == Idle /\ RmdirCall(path)

\* ------------------------------- Open and Create, one lock region a step
At(t, pc) == threads[t].pc = pc

Goto(t, pc) == [threads EXCEPT ![t].pc = pc]

Return(t) == [threads EXCEPT ![t] = IdleThread]

\* Open, under the read lock: a hit returns a handle on the cached record
OpenLookup(t, name) ==
  /\ At(t, "idle")
  /\ IF name \in DOMAIN fsCache
     THEN /\ files[fsCache[name]].Refs < MaxRefs
          /\ Commit(NewFileHandle(World, fsCache[name]), threads,
                    [op |-> "Open", name |-> name, status |-> "OK",
                     fid |-> fsCache[name], hit |-> TRUE])
     ELSE /\ Commit(World, [threads EXCEPT ![t].pc = "open_get", ![t].name = name],
                    last)

\* Open: GetFiledata
OpenGet(t) ==
  /\ At(t, "open_get")
  /\ LET g == GetFiledata(World, threads[t].name)
     IN IF g.err # "nil"
        THEN Commit(g.w, Return(t),
                    [op |-> "Open", name |-> threads[t].name,
                     status |-> Errno(g.err)])
        ELSE Commit(g.w,
                    [threads EXCEPT ![t].pc = "open_read", ![t].attr = g.ret.Attr,
                                    ![t].hash = g.ret.Hash],
                    last)

\* Open: Read of the body, and the new record
OpenRead(t) ==
  /\ At(t, "open_read")
  /\ Cardinality(DOMAIN files) < MaxFiles
  /\ LET d == Read(World, threads[t].hash)
         n == NewFile(World, NewFileData(threads[t].name, threads[t].hash,
                                         d.data, threads[t].attr))
     IN Commit(n.w, [threads EXCEPT ![t].pc = "open_insert", ![t].fd = n.id,
                                    ![t].attr = 0],
               last)

\* Open: the record is put into the cache under the write lock
OpenInsert(t) ==
  /\ At(t, "open_insert")
  /\ Commit([World EXCEPT !.fsCache = Put(@, threads[t].name, threads[t].fd)],
            Goto(t, "open_handle"), last)

\* Open: NewFileHandle on the new record
OpenHandle(t) ==
  /\ At(t, "open_handle")
  /\ Commit(NewFileHandle(World, threads[t].fd), Return(t),
            [op |-> "Open", name |-> threads[t].name, status |-> "OK",
             fid |-> threads[t].fd, hit |-> FALSE])

\* Create: GetFiledata must report NotFound
CreateGet(t, name, mode) ==
  /\ At(t, "idle")
  /\ LET g == GetFiledata(World, name)
     IN IF g.err = "nil"
        THEN Commit(g.w, threads,
                    [op |-> "Create", name |-> name, status |-> "EEXIST"])
        ELSE IF g.err # "NotFound"
        THEN Commit(g.w, threads,
                    [op |-> "Create", name |-> name, status |-> "EIO"])
        ELSE Commit(g.w,
                    [threads EXCEPT ![t].pc = "create_file", ![t].name = name,
                                    ![t].mode = OrBits(S_IFREG, mode)],
                    last)

\* Create: CreateFile with an empty hash
CreateRow(t) ==
  /\ At(t, "create_file")
  /\ LET attr == [ZeroAttr EXCEPT !.Mode = threads[t].mode]
         c == CreateFile(World, threads[t].name, attr, EmptyHash)
     IN IF c.err # "nil"
        THEN Commit(c.w, Return(t),
                    [op |-> "Create", name |-> threads[t].name, status |-> "EIO"])
        ELSE Commit(c.w, Goto(t, "create_insert"), last)

\* Create: the new record is put into the cache under the write lock
CreateInsert(t) ==
  /\ At(t, "create_insert")
  /\ Cardinality(DOMAIN files) < MaxFiles
  /\ LET a == NewAttr(World, [ZeroAttr EXCEPT !.Mode = threads[t].mode])
         n == NewFile(a.w, NewFileData(threads[t].name, EmptyHash, <<>>, a.id))
     IN Commit([n.w EXCEPT !.fsCache = Put(@, threads[t].name, n.id)],
               [threads EXCEPT ![t].pc = "create_handle", ![t].fd = n.id],
               last)

\* Create: NewFileHandle on the new record
CreateHandle(t) ==
  /\ At(t, "create_handle")
  /\ Commit(NewFileHandle(World, threads[t].fd), Return(t),
            [op |-> "Create", name |-> threads[t].name, status |-> "OK",
             fid |-> threads[t].fd])

\* ------------------------------------------ the content layer, as calls
WriteBody(data) ==
  /\ Idle
  /\ Len(calls) < MaxCalls
  /\ LET r == WriteFileData(World, data)
         c == [op |-> "write", data |-> data, hash |-> r.hash, err |-> r.err,
               held |-> HasData(World, r.hash), inserted |-> r.inserted]
     IN /\ Assign(r.w, threads, c)
        /\ calls' = Append(calls, c)
        /\ UNCHANGED <<now, steps, hist, prev>>

ReadBody(hash) ==
  /\ Idle
  /\ Len(calls) < MaxCalls
  /\ LET c == [op |-> "read", hash |-> hash, out |-> ReadData(World, hash)]
     IN /\ Assign(World, threads, c)
        /\ calls' = Append(calls, c)
        /\ UNCHANGED <<now, steps, hist, prev>>

WrittenHashes == {calls[i].hash : i \in {j \in 1..Len(calls) : calls[j].op = "write"}}

\* -------------------------------------------------------- specifications
\* a run takes at most n steps
Budget(n) == steps < n /\ steps' = steps + 1 /\ UNCHANGED hist

\* before a scenario starts: at most n steps that are not recorded
Before(n) == hist = <<>> /\ Budget(n)

\* the k-th call of a scenario is recorded with its result
Stage(k, A) ==
  /\ Len(hist) = k - 1 /\ A
  /\ hist' = Append(hist, last' @@ [prev |-> prev'])
  /\ UNCHANGED steps

\* the clock moves on between two calls of a scenario
Pause == Tick /\ UNCHANGED <<steps, hist>>

\* create, write, flush and unlink on one mount
RefNext ==
  \/ \E name \in Paths, mode \in CreateModes :
       Budget(MaxRefSteps) /\ Create(name, mode)
  \/ \E fid \in DOMAIN files, data \in WriteData, offset \in Offsets :
       Budget(MaxRefSteps) /\ HWrite(fid, data, offset)
  \/ \E fid \in DOMAIN files :
       Budget(MaxRefSteps) /\ HFlush(fid)
  \/ \E name \in Paths :
       Budget(MaxRefSteps) /\ Unlink(name)

RefSpec == Init /\ [][RefNext]_vars

\* the calls through one handle
HandleNext ==
  \/ \E name \in Paths, mode \in CreateModes :
       Budget(MaxHandleSteps) /\ Create(name, mode)
  \/ \E fid \in DOMAIN files, data \in WriteData, offset \in Offsets :
       Budget(MaxHandleSteps) /\ HWrite(fid, data, offset)
  \/ \E fid \in DOMAIN files :
       Budget(MaxHandleSteps) /\ HFlush(fid)
  \/ \E fid \in DOMAIN files, size \in 0..MaxBody :
       Budget(MaxHandleSteps) /\ HTruncate(fid, size)
  \/ \E fid \in DOMAIN files, mod \in ChmodModes :
       Budget(MaxHandleSteps) /\ HChmod(fid, mod)
  \/ \E fid \in DOMAIN files, id \in Owners :
       Budget(MaxHandleSteps) /\ HChown(fid, id, id)
  \/ \E fid \in DOMAIN files, ns \in Nanos :
       Budget(MaxHandleSteps) /\ HUtimens(fid, ns, ns)

HandleSpec == Init /\ [][HandleNext]_vars

\* the calls that read or change the namespace and the metadata cache
CacheNext ==
  \/ \E name \in Paths :
       Budget(MaxCacheSteps) /\ GetAttr(name)
  \/ Budget(MaxCacheSteps) /\ FsOpenDir(<<"">>)
  \/ \E name \in Paths, mode \in CreateModes :
       Budget(MaxCacheSteps) /\ Create(name, mode)
  \/ \E fid \in DOMAIN files, data \in WriteData :
       Budget(MaxCacheSteps) /\ HWrite(fid, data, 0)
  \/ \E fid \in DOMAIN files :
       Budget(MaxCacheSteps) /\ HFlush(fid)
  \/ \E name \in Paths :
       Budget(MaxCacheSteps) /\ Unlink(name)
  \/ \E old \in Paths : \E new \in Paths \ {old} :
       Budget(MaxCacheSteps) /\ FsRename(old, new)
  \/ \E orig \in Paths, new \in Paths :
       Budget(MaxCacheSteps) /\ Link(orig, new)
  \/ \E t \in Targets, name \in Paths :
       Budget(MaxCacheSteps) /\ Symlink(t, name)
  \/ \E name \in Paths, mode \in ChmodModes :
       Budget(MaxCacheSteps) /\ Chmod(name, mode)
  \/ \E name \in Paths, id \in Owners :
       Budget(MaxCacheSteps) /\ Chown(name, id, id)
  \/ \E name \in Paths, ns \in Nanos :
       Budget(MaxCacheSteps) /\ Utimens(name, 1, ns, 1, ns)
  \/ Budget(MaxCacheSteps) /\ Tick

CacheSpec == Init /\ [][CacheNext]_vars

\* concurrent Open and Create of the dispatch threads; Link makes rows that
\* no open-file record exists for
ConcNext ==
  \/ \E t \in Threads, name \in Paths :
       Budget(MaxConcSteps) /\ OpenLookup(t, name)
  \/ \E t \in Threads :
       Budget(MaxConcSteps) /\ OpenGet(t)
  \/ \E t \in Threads :
       Budget(MaxConcSteps) /\ OpenRead(t)
  \/ \E t \in Threads :
       Budget(MaxConcSteps) /\ OpenInsert(t)
  \/ \E t \in Threads :
       Budget(MaxConcSteps) /\ OpenHandle(t)
  \/ \E t \in Threads, name \in Paths, mode \in CreateModes :
       Budget(MaxConcSteps) /\ CreateGet(t, name, mode)
  \/ \E t \in Threads :
       Budget(MaxConcSteps) /\ CreateRow(t)
  \/ \E t \in Threads :
       Budget(MaxConcSteps) /\ CreateInsert(t)
  \/ \E t \in Threads :
       Budget(MaxConcSteps) /\ CreateHandle(t)
  \/ \E fid \in DOMAIN files :
       Budget(MaxConcSteps) /\ HRelease(fid)
  \/ \E orig \in Paths, new \in Paths :
       Budget(MaxConcSteps) /\ Link(orig, new)

ConcSpec == Init /\ [][ConcNext]_vars

\* the content layer alone: bodies written, and read back by their hash
BodyNext ==
  \/ \E data \in Bodies : WriteBody(data)
  \/ \E hash \in WrittenHashes \cup {EmptyHash} : ReadBody(hash)

BodySpec == Init /\ [][BodyNext]_vars

\* the whole program
Next == RefNext \/ HandleNext \/ CacheNext \/ ConcNext \/ BodyNext

Spec == Init /\ [][Next]_vars

\* ----------------------------------------------------------------- claims
RowsWith(hash) == {r \in filesystem : r.hash = hash}

ContentHashes == ({r.hash : r \in filesystem} \cup DOMAIN fileref) \ {EmptyHash}

\* C1: after every completed operation of a sequence of Create, Write, Flush
\* and Unlink, the fileref counter of every content hash equals the number
\* of filesystem rows that carry the hash.
C1_RefsEqualRows ==
  \A h \in ContentHashes : RefCount(World, h) = Cardinality(RowsWith(h))

\* C4: every fresh metadata-cache entry of a path holds the hash of the row
\* stored for that path, and the row exists.
C4_CacheCoherent ==
  \A p \in DOMAIN fileCache :
    Fresh(fileCache[p]) => HasRowAt(p) /\ RowAt(p).hash = fileCache[p].Hash

\* C7: right after a Flush that returned OK the record is not dirty, and a
\* Flush of a record that is not dirty performs no database operation.
C7_FlushClearsDirty ==
  (last.op = "Flush" /\ last.status = "OK") =>
    /\ ~files[last.fid].Dirty
    /\ (~last.wasDirty => ~last.db)

HandleMutators == {"Write", "Truncate", "HChmod", "HChown", "HUtimens"}

\* C8: after a handle Write (at any offset), Truncate, Chmod, Chown or
\* Utimens that returned OK and changed the record, the record is dirty.
C8_DirtyAfterMutation ==
  (last.op \in HandleMutators /\ last.status = "OK" /\ last.changed) =>
    files[last.fid].Dirty

\* C9: after a successful Flush the Size in the metadata of the path's row
\* equals the total length of the chunks stored under the row's hash.
C9_SizeEqualsChunks ==
  (last.op = "Flush" /\ last.status = "OK") =>
    /\ HasRowAt(last.name)
    /\ Unmarshal(RowAt(last.name).metadata).Size
         = Len(ReadData(World, RowAt(last.name).hash))

\* C10: Write(data, offset) on body B leaves B, the zero fill of the gap and
\* data when offset is beyond the end, B[0:offset] and data otherwise; Size
\* is the length of the new body and the call returns len(data) with OK.
C10_WriteResult ==
  last.op = "Write" =>
    LET B == last.body
        new == files[last.fid].Data
    IN /\ last.offset > Len(B) =>
            new = (B \o Repeat(0, last.offset - Len(B))) \o last.data
       /\ last.offset <= Len(B) => new = Slice(B, 0, last.offset) \o last.data
       /\ attrs[files[last.fid].Attr].Size = Len(new)
       /\ last.ret = Len(last.data)
       /\ last.status = "OK"

Successive == 1..(Len(calls) - 1)

\* C2: WriteFileData(b) on a store that does not hold b inserts consecutive
\* slices of b that cover b, and ReadData of the returned hash yields b.
C2_RoundTrip ==
  \A i \in Successive :
    (/\ calls[i].op = "write" /\ ~calls[i].held
     /\ calls[i + 1].op = "read" /\ calls[i + 1].hash = calls[i].hash)
    => /\ calls[i + 1].out = calls[i].data
       /\ Concat(calls[i].inserted) = calls[i].data

TwiceWritten(i) ==
  /\ calls[i].op = "write" /\ calls[i].err = "nil"
  /\ calls[i + 1].op = "write" /\ calls[i + 1].err = "nil"
  /\ calls[i + 1].data = calls[i].data

\* C3: two successive successful WriteFileData(b) return the same hash and
\* the second inserts no filedata row, for every b, the empty one included.
C3_WriteIdempotent ==
  \A i \in Successive :
    TwiceWritten(i) =>
      calls[i + 1].hash = calls[i].hash /\ calls[i + 1].inserted = {}

C3_Witness ==
  \E i \in Successive :
    /\ TwiceWritten(i) /\ ~calls[i].held
    /\ Len(calls[i].data) > BLOBSIZE
    /\ Cardinality(calls[i].inserted) > 1

\* C5: every open-file record whose handle counter Refs is positive is the
\* value the open-file cache holds under the record's own path.
C5_ReferencedIsCached ==
  \A f \in DOMAIN files :
    files[f].Refs > 0 =>
      files[f].Name \in DOMAIN fsCache /\ fsCache[files[f].Name] = f

\* a record the program can reach: cached, or behind a returned handle
InUse(f) == hopen[f] > 0 \/ \E p \in DOMAIN fsCache : fsCache[p] = f

\* C6: at most one open-file record exists for a path at any time, and all
\* handles returned for the path reference that record.
C6_OneRecordPerPath ==
  \A f \in DOMAIN files, g \in DOMAIN files :
    (InUse(f) /\ InUse(g) /\ files[f].Name = files[g].Name) => f = g

\* ------------------------------------------------- create, write, reopen
\* the handle the i-th call of the scenario returned
Handle(i) ==
  IF Len(hist) >= i /\ hist[i].status = "OK" THEN {hist[i].fid} ELSE {}

\* any calls first, then Create, Write at 0, Flush, Release, Open, Read at 0
\* and GetAttr in this order, of any paths
ReopenNext ==
  \/ \E name \in Paths, mode \in CreateModes :
       Before(MaxBefore) /\ Create(name, mode)
  \/ \E name \in Paths :
       Before(MaxBefore) /\ Unlink(name)
  \/ \E old \in Paths : \E new \in Paths \ {old} :
       Before(MaxBefore) /\ FsRename(old, new)
  \/ Len(hist) >= 4 /\ Pause
  \/ \E name \in Paths, mode \in CreateModes :
       Stage(1, Create(name, mode))
  \/ \E fid \in Handle(1), data \in Bodies :
       Stage(2, HWrite(fid, data, 0))
  \/ \E fid \in Handle(1) :
       Stage(3, HFlush(fid))
  \/ \E fid \in Handle(1) :
       Stage(4, HRelease(fid))
  \/ \E name \in Paths :
       Stage(5, Open(name))
  \/ \E fid \in Handle(5), n \in {Len(files[f].Data) : f \in Handle(5)} \cup {MaxBody} :
       Stage(6, HRead(fid, n, 0))
  \/ \E name \in Paths :
       Stage(7, GetAttr(name))

ReopenSpec == Init /\ [][ReopenNext]_vars

\* Create of an absent path returned a handle, and Write, Flush and Release
\* went through that handle
Written ==
  /\ Len(hist) >= 4
  /\ hist[1].status = "OK" /\ hist[1].absent
  /\ hist[2].fid = hist[1].fid
  /\ hist[3].fid = hist[1].fid /\ hist[3].status = "OK"
  /\ hist[4].fid = hist[1].fid

Reopened ==
  /\ Written
  /\ Len(hist) >= 5
  /\ hist[5].name = hist[1].name

ReadBack ==
  /\ Reopened
  /\ Len(hist) >= 6
  /\ hist[5].status = "OK"
  /\ hist[6].fid = hist[5].fid /\ hist[6].n = Len(hist[2].data)

\* C11: after Create(p) of an absent p, Write(d, 0), Flush and Release,
\* Open(p) succeeds, Read of len(d) bytes at 0 through the new handle
\* returns d, and GetAttr(p) succeeds with Size = len(d).
C11_Reopen ==
  /\ Reopened => hist[5].status = "OK"
  /\ ReadBack => hist[6].out = hist[2].data
  /\ (ReadBack /\ Len(hist) >= 7 /\ hist[7].name = hist[1].name) =>
       hist[7].status = "OK" /\ hist[7].attr.Size = Len(hist[2].data)

C11_Witness ==
  /\ ReadBack
  /\ Len(hist) >= 7 /\ hist[7].name = hist[1].name
  /\ Len(hist[2].data) > BLOBSIZE
  /\ hist[6].out = hist[2].data
  /\ hist[7].attr.Size = Len(hist[2].data)

\* ------------------------------------------------- link, unlink, reopen
\* any calls first, then Create, Write at 0, Flush, Link, Unlink, Open and
\* Read at 0 in this order, of any paths
LinkNext ==
  \/ \E name \in Paths, mode \in CreateModes :
       Before(MaxBefore) /\ Create(name, mode)
  \/ \E name \in Paths :
       Before(MaxBefore) /\ Unlink(name)
  \/ Len(hist) >= 3 /\ Pause
  \/ \E name \in Paths, mode \in CreateModes :
       Stage(1, Create(name, mode))
  \/ \E fid \in Handle(1), data \in Bodies \ {<<>>} :
       Stage(2, HWrite(fid, data, 0))
  \/ \E fid \in Handle(1) :
       Stage(3, HFlush(fid))
  \/ \E orig \in Paths : \E new \in Paths \ {orig} :
       Stage(4, Link(orig, new))
  \/ \E name \in Paths :
       Stage(5, Unlink(name))
  \/ \E name \in Paths :
       Stage(6, Open(name))
  \/ \E fid \in Handle(6), n \in 0..MaxBody :
       Stage(7, HRead(fid, n, 0))

LinkSpec == Init /\ [][LinkNext]_vars

\* f was created, written and flushed, linked to g and unlinked
Relinked ==
  /\ Len(hist) >= 5
  /\ hist[1].status = "OK" /\ hist[1].absent
  /\ hist[3].status = "OK"
  /\ hist[4].name = hist[1].name /\ hist[4].status = "OK"
  /\ hist[5].name = hist[1].name /\ hist[5].status = "OK"

\* C12: after Link(f, g) and Unlink(f) of a flushed file f with non-empty
\* body d, the counter of d's hash is 1, Open(g) succeeds and reading g
\* returns d.
C12_LinkSurvives ==
  /\ Relinked => RefCount(World, ShaSum(hist[2].data)) = 1
  /\ (Relinked /\ Len(hist) >= 6 /\ hist[6].name = hist[4].to) =>
       hist[6].status = "OK"
  /\ (Relinked /\ Len(hist) >= 7 /\ hist[6].name = hist[4].to
        /\ hist[6].status = "OK" /\ hist[7].n = Len(hist[2].data)) =>
       hist[7].out = hist[2].data

\* --------------------------------------------------- directories
\* the kernel resolves the parent of a path before it sends the call, and
\* sends Unlink for what is not a directory

DirNext ==
  \/ \E path \in DirPaths, mode \in DirModes :
       Budget(MaxDirSteps) /\ ParentIsDir(path) /\ Mkdir(path, mode)
  \/ \E path \in DirPaths :
       Budget(MaxDirSteps) /\ ParentIsDir(path) /\ Rmdir(path)
  \/ \E name \in DirPaths, mode \in CreateModes :
       Budget(MaxDirSteps) /\ ParentIsDir(name) /\ Create(name, mode)
  \/ \E name \in DirPaths :
       Budget(MaxDirSteps) /\ ParentIsDir(name) /\ ~IsDirAt(name) /\ Unlink(name)
  \/ \E name \in DirPaths :
       Budget(MaxDirSteps) /\ ParentIsDir(name) /\ GetAttr(name)
  \/ Budget(MaxDirSteps) /\ Tick

DirSpec == Init /\ [][DirNext]_vars

\* the rows stored under the directory ids in ids
ChildRows(rows, ids) == {r \in rows : r.directory \in ids}

Tables == <<filesystem, filedata, fileref>>

\* C13: Rmdir of a path whose row is not a directory returns ENOTDIR and
\* leaves the tables alone; of a directory with a child row (a row under the
\* id the path resolves to) it returns ENOTEMPTY and leaves the tables
\* alone; of any other directory it returns OK and the row is gone.
C13_Rmdir ==
  (last.op = "Rmdir" /\ LastPre.row) =>
    LET entry == CHOOSE r \in LastPre.entry : TRUE
        rows == LastPre.tables[1]
    IN IF ~IsDir(Unmarshal(entry.metadata))
       THEN last.status = "ENOTDIR" /\ Tables = LastPre.tables
       ELSE IF ChildRows(rows, LastPre.dirid) # {}
       THEN last.status = "ENOTEMPTY" /\ Tables = LastPre.tables
       ELSE last.status = "OK" /\ ~HasRowAt(last.name)


\* --------------------------------------------------- symbolic links
\* calls made on the mount before the link is created, then Symlink,
\* Readlink and GetAttr, the clock moving on in between
SymNext ==
  \/ \E name \in Paths, mode \in CreateModes :
       Before(MaxBefore) /\ Create(name, mode)
  \/ \E name \in Paths : Before(MaxBefore) /\ Unlink(name)
  \/ \E name \in Paths : Before(MaxBefore) /\ GetAttr(name)
  \/ \E old \in Paths : \E new \in Paths \ {old} :
       Before(MaxBefore) /\ FsRename(old, new)
  \/ Pause
  \/ \E t \in Targets, l \in Paths : Stage(1, Symlink(t, l))
  \/ \E l \in Paths : Stage(2, Readlink(l))
  \/ \E l \in Paths : Stage(3, GetAttr(l))

SymSpec == Init /\ [][SymNext]_vars

\* Symlink returned OK for a path that had no row
Linked ==
  /\ Len(hist) >= 1
  /\ hist[1].status = "OK" /\ ~PreIn(hist[1].prev, hist[1].name).row

\* C14: after Symlink(t, l) returned OK for an absent path l, Readlink(l)
\* returns t, the mode GetAttr(l) returns has the symlink type, and the
\* filedata table is what it was before the Symlink.
C14_SymlinkRoundTrip ==
  Linked =>
    /\ filedata = hist[1].prev.filedata
    /\ (Len(hist) >= 2 /\ hist[2].name = hist[1].name) =>
         hist[2].status = "OK" /\ hist[2].out = hist[1].target
    /\ (Len(hist) >= 3 /\ hist[3].name = hist[1].name) =>
         hist[3].status = "OK" /\ AndBits(hist[3].attr.Mode, S_IFMT) = S_IFLNK

\* --------------------------------------------------- lookups
RootPath == <<"">>

LookupNext ==
  \/ \E path \in DirPaths, mode \in DirModes :
       Budget(MaxLookupSteps) /\ ParentIsDir(path) /\ Mkdir(path, mode)
  \/ \E name \in DirPaths, mode \in CreateModes :
       Budget(MaxLookupSteps) /\ ParentIsDir(name) /\ Create(name, mode)
  \/ \E name \in DirPaths :
       Budget(MaxLookupSteps) /\ ParentIsDir(name) /\ ~IsDirAt(name)
         /\ Unlink(name)
  \/ \E name \in DirPaths \cup {RootPath} :
       Budget(MaxLookupSteps) /\ ParentIsDir(name) /\ GetAttr(name)
  \/ \E name \in DirPaths :
       Budget(MaxLookupSteps) /\ ParentIsDir(name) /\ Open(name)
  \/ \E f \in Faults : Budget(MaxLookupSteps) /\ Break(f)
  \/ Budget(MaxLookupSteps) /\ Tick

LookupSpec == Init /\ [][LookupNext]_vars

\* the call answers without a query: GetAttr from a fresh entry of the
\* metadata cache, Open from an open-file record or such an entry
Answered ==
  LastPre.fresh \/ (last.op = "Open" /\ LastPre.open)

\* C15: GetAttr and Open of a path other than the root, whose parent
\* exists, return ENOENT when the lookup of the row reports NotFound, EIO
\* when it fails in another way, and OK otherwise; GetAttr of the root
\* returns OK with the directory type and the mount's mode, uid and gid,
\* also when the database fails, and leaves tables and caches alone.
C15_LookupStatus ==
  /\ (last.op \in {"GetAttr", "Open"} /\ last.name # RootPath
        /\ LastPre.pdir # {}) =>
       last.status = IF Answered THEN "OK"
                     ELSE IF LastPre.fault = "lookup" THEN "EIO"
                     ELSE IF ~LastPre.row THEN "ENOENT"
                     ELSE "OK"
  /\ (last.op = "GetAttr" /\ last.name = RootPath) =>
       /\ last.status = "OK"
       /\ IsDir(last.attr)
       /\ AndBits(last.attr.Mode, PermMask) = MountOptions.Mode
       /\ last.attr.Uid = MountOptions.Uid /\ last.attr.Gid = MountOptions.Gid
       /\ Tables = LastPre.tables
       /\ <<fileCache, uuidCache>> = LastPre.caches

\* a lookup of an existing nested row failed at the database
C15_Witness ==
  /\ last.op \in {"GetAttr", "Open"} /\ Len(last.name) = 2
  /\ LastPre.pdir # {} /\ LastPre.row /\ ~Answered
  /\ LastPre.fault = "lookup" /\ last.status = "EIO"

\* --------------------------------------------------- listings
ListNext ==
  \/ \E path \in DirPaths, mode \in DirModes :
       Budget(MaxListSteps) /\ ParentIsDir(path) /\ Mkdir(path, mode)
  \/ \E name \in DirPaths, mode \in CreateModes :
       Budget(MaxListSteps) /\ ParentIsDir(name) /\ Create(name, mode)
  \/ \E path \in DirPaths :
       Budget(MaxListSteps) /\ ParentIsDir(path) /\ Rmdir(path)
  \/ \E name \in DirPaths \cup {RootPath} :
       Budget(MaxListSteps) /\ FsOpenDir(name)
  \/ Budget(MaxListSteps) /\ Tick

ListSpec == Init /\ [][ListNext]_vars

\* C16: OpenDir of a path other than the root that does not resolve to a
\* directory id returns ENOENT and no entries, and leaves the metadata
\* cache as it was.
C16_OpenDirUnresolved ==
  (last.op = "OpenDir" /\ last.name # RootPath /\ LastPre.dirid = {}) =>
    /\ last.status = "ENOENT"
    /\ last.ret = {}
    /\ fileCache = LastPre.caches[1]

\* --------------------------------------------------- unresolved parents
\* paths under a directory d that may or may not exist
OrphanPaths == {<<"a">>, <<"d">>, <<"d", "a">>}

OrphanNext ==
  \/ \E path \in OrphanPaths, mode \in DirModes :
       Budget(MaxOrphanSteps) /\ Mkdir(path, mode)
  \/ \E name \in OrphanPaths, mode \in CreateModes :
       Budget(MaxOrphanSteps) /\ Create(name, mode)
  \/ \E name \in OrphanPaths : Budget(MaxOrphanSteps) /\ GetAttr(name)
  \/ \E name \in OrphanPaths : Budget(MaxOrphanSteps) /\ Open(name)
  \/ \E t \in Targets, l \in OrphanPaths :
       Budget(MaxOrphanSteps) /\ Symlink(t, l)
  \/ \E name \in OrphanPaths :
       Budget(MaxOrphanSteps) /\ ~IsDirAt(name) /\ Unlink(name)
  \/ Budget(MaxOrphanSteps) /\ Tick

OrphanSpec == Init /\ [][OrphanNext]_vars

LeafCalls == {"GetAttr", "Open", "Create", "Mkdir", "Symlink", "Unlink"}

\* C17: GetAttr, Open, Create, Mkdir, Symlink and Unlink of a path whose
\* parent does not resolve to a directory id return EIO and leave the
\* tables as they were.
C17_UnresolvedParent ==
  (last.op \in LeafCalls /\ LastPre.pdir = {}) =>
    last.status = "EIO" /\ Tables = LastPre.tables


\* --------------------------------------------------- Mkdir
\* the rows Mkdir added to the filesystem table
NewRows == filesystem \ LastPre.tables[1]

\* C18: Mkdir of a path that has a row returns EEXIST and leaves the tables
\* as they were, also when the lookup fails at the database; of a path
\* without a row it returns OK and adds one row, whose hash is a fresh UUID
\* and whose mode is the given mode with the directory type.
C18_Mkdir ==
  (last.op = "Mkdir" /\ LastPre.pdir # {}) =>
    IF LastPre.row
    THEN last.status = "EEXIST" /\ Tables = LastPre.tables
    ELSE LastPre.fault # "insert" =>
           /\ last.status = "OK"
           /\ LastPre.tables[1] \subseteq filesystem
           /\ Cardinality(NewRows) = 1
           /\ \A r \in NewRows :
                /\ r.name = last.name[Len(last.name)]
                /\ IsUuid(r.hash)
                /\ \A q \in LastPre.tables[1] : q.hash # r.hash
                /\ Unmarshal(r.metadata).Mode = OrBits(S_IFDIR, last.mode)

\* --------------------------------------------------- Create
\* the metadata lookup of Create succeeds: a fresh cache entry, or the row
\* and a working query
LookupFound ==
  LastPre.fresh \/ (LastPre.fault # "lookup" /\ LastPre.row)

LookupFailed == ~LastPre.fresh /\ LastPre.fault = "lookup"

Untouched == Tables = LastPre.tables /\ fsCache = LastPre.fsCache

\* C19: Create returns EEXIST, tables and open-file cache unchanged, when
\* the lookup succeeds; EIO, tables and open-file cache unchanged, when the
\* lookup fails other than by NotFound or the insert fails; otherwise OK
\* with a new row of regular type and empty hash, and a record with empty
\* body and empty hash cached under the path, which the handle refers to.
C19_Create ==
  (last.op = "Create" /\ LastPre.pdir # {}) =>
    IF LookupFound THEN last.status = "EEXIST" /\ Untouched
    ELSE IF LookupFailed \/ LastPre.fault = "insert"
    THEN last.status = "EIO" /\ Untouched
    ELSE /\ last.status = "OK"
         /\ HasRowAt(last.name)
         /\ RowAt(last.name).hash = EmptyHash
         /\ Unmarshal(RowAt(last.name).metadata).Mode
              = OrBits(S_IFREG, last.mode)
         /\ filesystem \ {RowAt(last.name)} = LastPre.tables[1]
         /\ last.name \in DOMAIN fsCache
         /\ last.fid = fsCache[last.name]
         /\ files[last.fid].Data = <<>>
         /\ files[last.fid].Hash = EmptyHash

\* the insert of Create failed
C19_Witness ==
  /\ last.op = "Create" /\ LastPre.pdir # {} /\ ~LastPre.row
  /\ LastPre.fault = "insert" /\ last.status = "EIO"

\* --------------------------------------------------- Rename of the store
\* Cass.Rename called on its own
StoreRename(oldName, newName) ==
  /\ Idle
  /\ LET r == Rename(World, oldName, newName)
     IN Call(r.w, threads,
               [op |-> "StoreRename", name |-> oldName, to |-> newName,
                status |-> Errno(r.err)])

RenameNext ==
  \/ \E name \in Paths, mode \in CreateModes :
       Budget(MaxRenameSteps) /\ Create(name, mode)
  \/ \E t \in Targets, l \in Paths : Budget(MaxRenameSteps) /\ Symlink(t, l)
  \/ \E name \in Paths : Budget(MaxRenameSteps) /\ Unlink(name)
  \/ \E old \in Paths, new \in Paths :
       Budget(MaxRenameSteps) /\ StoreRename(old, new)
  \/ \E old \in Paths : \E new \in Paths \ {old} :
       Budget(MaxRenameSteps) /\ FsRename(old, new)
  \/ Budget(MaxRenameSteps) /\ Tick

RenameSpec == Init /\ [][RenameNext]_vars

\* C20: after Rename(old, new) of the store returned nil for an old path
\* that had a row, new has a row with the hash and metadata of old's row,
\* old has no row when it differs from new, and the counters are what they
\* were.
C20_Rename ==
  (last.op = "StoreRename" /\ LastPre.row /\ last.status = "OK") =>
    LET entry == CHOOSE r \in LastPre.entry : TRUE
    IN /\ HasRowAt(last.to)
       /\ RowAt(last.to).hash = entry.hash
       /\ RowAt(last.to).metadata = entry.metadata
       /\ last.name # last.to => ~HasRowAt(last.name)
       /\ fileref = LastPre.tables[3]


\* --------------------------------------------------- release
\* the handle Create returned was the only one and has been released
LastReleased ==
  /\ Len(hist) >= 4
  /\ hist[1].op = "Create" /\ hist[1].status = "OK"
  /\ hist[4].op = "HRelease" /\ hist[4].fid = hist[1].fid

\* C21: once the last handle of a path is released, the open-file cache
\* holds no record for the path, and the next Open of the path reads the
\* database instead of returning the cached record.
C21_ReleaseDestroys ==
  LastReleased =>
    /\ Len(hist) = 4 => hist[1].name \notin DOMAIN fsCache
    /\ (Len(hist) >= 5 /\ hist[5].name = hist[1].name
          /\ hist[5].status = "OK") => ~hist[5].hit

\* --------------------------------------------------- parent ids
\* C22: every row stored under a non-empty directory id is stored under the
\* UUID that the hash column of some directory row holds.
C22_ParentExists ==
  \A r \in filesystem :
    r.directory # RootDir =>
      \E q \in filesystem :
        /\ IsDir(Unmarshal(q.metadata))
        /\ IsUuid(q.hash) /\ UuidString(q.hash) = r.directory

\* --------------------------------------------------- mode and owner
\* 0600 and 04675
AttrModes == {384, 2493}

\* root, a user, and 0xFFFFFFFF as an int32
AttrOwners == {0, 1000, -1}

AttrNext ==
  \/ \E name \in Paths, mode \in CreateModes :
       Budget(MaxAttrSteps) /\ Create(name, mode)
  \/ \E fid \in DOMAIN files, mod \in AttrModes :
       Budget(MaxAttrSteps) /\ HChmod(fid, mod)
  \/ \E fid \in DOMAIN files, uid \in AttrOwners, gid \in AttrOwners :
       Budget(MaxAttrSteps) /\ HChown(fid, uid, gid)
  \/ \E name \in Paths, mode \in AttrModes :
       Budget(MaxAttrSteps) /\ Chmod(name, mode)
  \/ \E name \in Paths, uid \in AttrOwners, gid \in AttrOwners :
       Budget(MaxAttrSteps) /\ Chown(name, uid, gid)
  \/ \E name \in Paths : Budget(MaxAttrSteps) /\ GetAttr(name)
  \/ Budget(MaxAttrSteps) /\ Tick

AttrSpec == Init /\ [][AttrNext]_vars

\* the attributes of the record the last handle call went through
HandleAttr == attrs[files[last.fid].Attr]

\* the row of the last call's path before the call, and its attributes
OldRow == CHOOSE r \in LastPre.entry : TRUE

OldAttr == Unmarshal(OldRow.metadata)

\* the mode with its low 12 bits replaced by those of mode
WithPerm(old, mode) == AndNotBits(old, PermMask) + AndBits(mode, PermMask)

\* C23: Chmod through a handle keeps the file-type bits of Mode and sets
\* the low 12 bits to mode & 07777; Chmod of a path does the same to the
\* stored metadata and changes no other attribute and not the hash.
C23_Chmod ==
  /\ last.op = "HChmod" =>
       HandleAttr.Mode = WithPerm(last.old.Mode, last.arg)
  /\ (last.op = "Chmod" /\ last.status = "OK" /\ LastPre.row) =>
       /\ HasRowAt(last.name)
       /\ RowAt(last.name).hash = OldRow.hash
       /\ Unmarshal(RowAt(last.name).metadata)
            = [OldAttr EXCEPT !.Mode = WithPerm(@, last.arg)]

\* the id Chown stores: the given one unless it is negative as an int32
Chowned(old, id) == IF id >= 0 THEN id ELSE old

\* C24: Chown, of a path and through a handle, replaces uid (gid) exactly
\* when the given value is not negative as a signed 32-bit integer.
C24_Chown ==
  /\ last.op = "HChown" =>
       /\ HandleAttr.Uid = Chowned(last.old.Uid, last.arg[1])
       /\ HandleAttr.Gid = Chowned(last.old.Gid, last.arg[2])
  /\ (last.op = "Chown" /\ last.status = "OK" /\ LastPre.row) =>
       /\ HasRowAt(last.name)
       /\ Unmarshal(RowAt(last.name).metadata).Uid
            = Chowned(OldAttr.Uid, last.arg[1])
       /\ Unmarshal(RowAt(last.name).metadata).Gid
            = Chowned(OldAttr.Gid, last.arg[2])


\* --------------------------------------------------- CopyFile
CopyNext ==
  \/ \E name \in Paths, mode \in CreateModes :
       Budget(MaxCopySteps) /\ Create(name, mode)
  \/ \E name \in Paths : Budget(MaxCopySteps) /\ Unlink(name)
  \/ \E orig \in Paths, new \in Paths :
       Budget(MaxCopySteps) /\ Link(orig, new)
  \/ \E f \in CopyFaults : Budget(MaxCopySteps) /\ Break(f)
  \/ Budget(MaxCopySteps) /\ Tick

CopySpec == Init /\ [][CopyNext]_vars

\* C25: a Link whose counter update fails after the insert returns an
\* error and leaves no row for the new path; a Link whose read of the
\* source or whose insert fails returns an error and leaves the tables as
\* they were.
C25_CopyFileFails ==
  last.op = "Link" =>
    /\ (LastPre.row /\ LastPre.fault \in {"incref", "incref_delete"}) =>
         last.status # "OK" /\ ~HasRowAt(last.to)
    /\ (~LastPre.row \/ LastPre.fault \in {"lookup", "insert"}) =>
         last.status # "OK" /\ Tables = LastPre.tables

\* the same when the DELETE that follows a failed counter update succeeds
C25_DeleteWorks ==
  (last.op = "Link" /\ LastPre.fault # "incref_delete") => C25_CopyFileFails


\* --------------------------------------------------- metadata cache, TTL
\* GetFiledata met an entry of the metadata cache as old as the TTL or older
MetStale ==
  /\ last.name \in DOMAIN LastPre.caches[1]
  /\ ~LastPre.fresh

\* the entry GetFiledata returns is younger than the TTL; an entry it met
\* at the age of the TTL or older is gone, and the answer is the row read now
TtlHonoured ==
  /\ last.status = "OK" => prev.now - last.ts < FcacheDuration
  /\ MetStale =>
       IF last.status = "OK"
       THEN /\ last.ts = prev.now
            /\ last.attr = OldAttr
            /\ fileCache[last.name].Timestamp = prev.now
       ELSE last.name \notin DOMAIN fileCache

\* the directory-id cache after the call: what it held before, and the id
\* of the parent directory when the walk to that directory succeeded
ParentCached ==
  LET before == LastPre.caches[2]
      dir == SubSeq(last.name, 1, Len(last.name) - 1)
  IN \/ uuidCache = before
     \/ /\ Len(last.name) >= 2 /\ dir \notin DOMAIN before
        /\ LastPre.pdir # {}
        /\ uuidCache = Put(before, dir, CHOOSE d \in LastPre.pdir : TRUE)

\* the metadata cache gained no entry
NoNewEntry ==
  /\ DOMAIN fileCache \subseteq DOMAIN LastPre.caches[1]
  /\ \A n \in DOMAIN fileCache : fileCache[n] = LastPre.caches[1][n]

\* C26: GetFiledata never returns an entry of the metadata cache as old as
\* the TTL or older (such an entry is evicted and the row is read again),
\* and a failed lookup inserts nothing into the metadata cache nor into the
\* directory-id cache.
C26_NothingCached ==
  (last.op = "GetAttr" /\ last.name # RootPath) =>
    /\ TtlHonoured
    /\ last.status # "OK" => NoNewEntry /\ uuidCache = LastPre.caches[2]

\* C26, amended: as above, but a failed lookup may add to the directory-id
\* cache the id of the parent directory, when that directory was found.
C26_NoNegativeEntry ==
  (last.op = "GetAttr" /\ last.name # RootPath) =>
    /\ TtlHonoured
    /\ last.status # "OK" => NoNewEntry /\ ParentCached

\* an entry as old as the TTL was met and the row was read again
C26_Witness ==
  /\ last.op = "GetAttr" /\ last.status = "OK"
  /\ MetStale
  /\ LastPre.caches[1][last.name].Timestamp < prev.now
  /\ last.ts = prev.now


\* ------------------------- Chmod and GetAttr, one lock region or query a step
\* a thread is between the start and the end of a path-level Chmod
InChmod(t) == threads[t].pc \in {"chmod_evict", "chmod_update"}

\* no update of attributes is under way
Quiet == \A t \in Threads : ~InChmod(t)

\* GetFiledata, the read of the cache: a fresh entry is the answer, a stale
\* one is deleted
AttrLookup(t, name) ==
  /\ At(t, "idle")
  /\ LET sp == splitPath(World, name)
         w == sp.w
     IN IF name \in DOMAIN w.fileCache /\ Fresh(w.fileCache[name])
        THEN Commit(w, threads,
                    [op |-> "GetAttr", name |-> name, status |-> "OK",
                     attr |-> w.attrs[w.fileCache[name].Attr],
                     quiet |-> Quiet,
                     row |-> IF HasRow(w, sp.parent, sp.child)
                             THEN {RowOf(w, sp.parent, sp.child).metadata}
                             ELSE {}])
        ELSE Commit([w EXCEPT !.fileCache = Remove(@, name)],
                    [threads EXCEPT ![t].pc = "attr_select", ![t].name = name,
                                    ![t].quiet = Quiet],
                    last)

\* GetFiledata, the SELECT of the row
AttrSelect(t) ==
  /\ At(t, "attr_select")
  /\ LET sp == splitPath(World, threads[t].name)
     IN IF ~HasRow(sp.w, sp.parent, sp.child)
        THEN Commit(sp.w, Return(t),
                    [op |-> "GetAttr", name |-> threads[t].name,
                     status |-> Errno("NotFound"), attr |-> ZeroAttr,
                     quiet |-> threads[t].quiet, row |-> {}])
        ELSE LET row == RowOf(sp.w, sp.parent, sp.child)
             IN Commit(sp.w,
                       [threads EXCEPT ![t].pc = "attr_fill",
                                       ![t].hash = row.hash,
                                       ![t].meta = Unmarshal(row.metadata)],
                       last)

\* GetFiledata, the new entry is put into the cache under the write lock
AttrFill(t) ==
  /\ At(t, "attr_fill")
  /\ LET name == threads[t].name
         sp == splitPath(World, name)
         a == NewAttr(World, threads[t].meta)
         ret == [Attr |-> a.id, Timestamp |-> now, Hash |-> threads[t].hash]
     IN Commit([a.w EXCEPT !.fileCache = Put(@, name, ret)], Return(t),
               [op |-> "GetAttr", name |-> name, status |-> "OK",
                attr |-> threads[t].meta, quiet |-> threads[t].quiet,
                row |-> IF HasRow(World, sp.parent, sp.child)
                        THEN {RowOf(World, sp.parent, sp.child).metadata}
                        ELSE {}])

\* Chmod: GetFiledata, the new mode is set in the entry it returned, and
\* WriteMetadata is called with a copy of that entry's metadata
ChmodGet(t, name, mode) ==
  /\ At(t, "idle")
  /\ LET g == GetFiledata(World, name)
     IN IF g.err # "nil"
        THEN Commit(g.w, threads,
                    [op |-> "Chmod", name |-> name, status |-> "EIO",
                     arg |-> mode])
        ELSE LET a == g.ret.Attr
                 w1 == [g.w EXCEPT !.attrs[a] = ChmodAttr(@, mode)]
             IN Commit(w1,
                       [u \in Threads |->
                          IF u = t
                          THEN [threads[u] EXCEPT !.pc = "chmod_evict",
                                                  !.name = name,
                                                  !.mode = mode,
                                                  !.meta = w1.attrs[a]]
                          ELSE [threads[u] EXCEPT !.quiet = FALSE]],
                       last)

\* WriteMetadata: the entry of the path is deleted from the cache
ChmodEvict(t) ==
  /\ At(t, "chmod_evict")
  /\ LET sp == splitPath(World, threads[t].name)
     IN Commit([sp.w EXCEPT !.fileCache = Remove(@, threads[t].name)],
               Goto(t, "chmod_update"), last)

\* WriteMetadata: the UPDATE of the row
ChmodUpdate(t) ==
  /\ At(t, "chmod_update")
  /\ LET sp == splitPath(World, threads[t].name)
     IN Commit(UpdateMetadata(sp.w, sp.parent, sp.child,
                              Marshal(threads[t].meta)),
               Return(t),
               [op |-> "Chmod", name |-> threads[t].name, status |-> "OK",
                arg |-> threads[t].mode])

EvictNext ==
  \/ \E name \in Paths, mode \in CreateModes :
       Budget(MaxEvictSteps) /\ Create(name, mode)
  \/ \E t \in Threads, name \in Paths :
       Budget(MaxEvictSteps) /\ AttrLookup(t, name)
  \/ \E t \in Threads : Budget(MaxEvictSteps) /\ AttrSelect(t)
  \/ \E t \in Threads : Budget(MaxEvictSteps) /\ AttrFill(t)
  \/ \E t \in Threads, name \in Paths, mode \in ChmodModes :
       Budget(MaxEvictSteps) /\ ChmodGet(t, name, mode)
  \/ \E t \in Threads : Budget(MaxEvictSteps) /\ ChmodEvict(t)
  \/ \E t \in Threads : Budget(MaxEvictSteps) /\ ChmodUpdate(t)
  \/ Budget(MaxEvictSteps) /\ Tick

EvictSpec == Init /\ [][EvictNext]_vars

\* C27: WriteMetadata evicts the path after its UPDATE, so a GetAttr that
\* starts when no Chmod of the path is under way, and during which none
\* starts, returns the attributes of the row, whatever GetAttr calls ran
\* while an earlier Chmod was under way.
C27_UpdatedAttrs ==
  (last.op = "GetAttr" /\ "quiet" \in DOMAIN last /\ last.quiet
     /\ last.status = "OK") =>
    \A m \in last.row : last.attr = Unmarshal(m)

\* ------------------- cacheLock: GetFiledata and DeleteFile, a step for every
\* acquisition of the lock and for every access to the map
\* the thread holds the read lock, the write lock
HoldsRead(t) == threads[t].pc = "get_read"

HoldsWrite(t) == threads[t].pc \in {"get_evict", "get_fill"}

\* the thread is reading the map, is writing the map
ReadsMap(t) == threads[t].pc \in {"get_read", "del_test"}

WritesMap(t) == threads[t].pc \in {"get_evict", "get_fill", "del_delete"}

\* sync.RWMutex: RLock waits for a writer, Lock for readers and writers
CanRLock == \A u \in Threads : ~HoldsWrite(u)

CanLock == \A u \in Threads : ~HoldsWrite(u) /\ ~HoldsRead(u)

\* GetFiledata: splitPath and cacheLock.RLock()
GetRLock(t, name) ==
  /\ At(t, "idle") /\ CanRLock
  /\ LET sp == splitPath(World, name)
     IN Commit(sp.w, [threads EXCEPT ![t].pc = "get_read", ![t].name = name],
               last)

\* GetFiledata: the entry is read, RUnlock(), and the TTL test
GetRead(t) ==
  /\ At(t, "get_read")
  /\ LET name == threads[t].name
     IN IF name \notin DOMAIN fileCache
        THEN Commit(World, Goto(t, "get_select"), last)
        ELSE IF Fresh(fileCache[name])
        THEN Commit(World, Return(t),
                    [op |-> "GetAttr", name |-> name, status |-> "OK",
                     attr |-> attrs[fileCache[name].Attr]])
        ELSE Commit(World, Goto(t, "get_stale"), last)

\* GetFiledata: cacheLock.Lock() before the stale entry is deleted
GetLockEvict(t) ==
  /\ At(t, "get_stale") /\ CanLock
  /\ Commit(World, Goto(t, "get_evict"), last)

\* GetFiledata: delete(c.fileCache, name) and Unlock()
GetEvict(t) ==
  /\ At(t, "get_evict")
  /\ Commit([World EXCEPT !.fileCache = Remove(@, threads[t].name)],
            Goto(t, "get_select"), last)

\* GetFiledata: the SELECT, and the entry built from the row
GetSelect(t) ==
  /\ At(t, "get_select")
  /\ LET sp == splitPath(World, threads[t].name)
     IN IF ~HasRow(sp.w, sp.parent, sp.child)
        THEN Commit(sp.w, Return(t),
                    [op |-> "GetAttr", name |-> threads[t].name,
                     status |-> Errno("NotFound"), attr |-> ZeroAttr])
        ELSE LET row == RowOf(sp.w, sp.parent, sp.child)
             IN Commit(sp.w,
                       [threads EXCEPT ![t].pc = "get_built",
                                       ![t].hash = row.hash,
                                       ![t].meta = Unmarshal(row.metadata)],
                       last)

\* GetFiledata: cacheLock.Lock() before the new entry is stored
GetLockFill(t) ==
  /\ At(t, "get_built") /\ CanLock
  /\ Commit(World, Goto(t, "get_fill"), last)

\* GetFiledata: c.fileCache[name] = ret and Unlock()
GetFill(t) ==
  /\ At(t, "get_fill")
  /\ LET name == threads[t].name
         a == NewAttr(World, threads[t].meta)
         ret == [Attr |-> a.id, Timestamp |-> now, Hash |-> threads[t].hash]
     IN Commit([a.w EXCEPT !.fileCache = Put(@, name, ret)], Return(t),
               [op |-> "GetAttr", name |-> name, status |-> "OK",
                attr |-> threads[t].meta])

\* DeleteFile: SELECT, DELETE and the decrement of the counter; the thread
\* then tests c.fileCache[name]
DeleteQuery(t, name) ==
  /\ At(t, "idle")
  /\ LET sp == splitPath(World, name)
         w == sp.w
     IN IF ~HasRow(w, sp.parent, sp.child)
        THEN Commit(w, threads,
                    [op |-> "Unlink", name |-> name, status |-> "EIO"])
        ELSE LET hash == RowOf(w, sp.parent, sp.child).hash
                 w1 == DeleteRow(w, sp.parent, sp.child)
                 w2 == IF HashLen(hash) > 0 THEN decrementDataRef(w1, hash)
                       ELSE w1
             IN Commit(w2,
                       [threads EXCEPT ![t].pc = "del_test", ![t].name = name],
                       last)

\* DeleteFile: the test of c.fileCache[name] has been made
DeleteTest(t) ==
  /\ At(t, "del_test")
  /\ IF threads[t].name \in DOMAIN fileCache
     THEN Commit(World, Goto(t, "del_delete"), last)
     ELSE Commit(World, Return(t),
                 [op |-> "Unlink", name |-> threads[t].name, status |-> "OK"])

\* DeleteFile: delete(c.fileCache, name)
DeleteEvict(t) ==
  /\ At(t, "del_delete")
  /\ Commit([World EXCEPT !.fileCache = Remove(@, threads[t].name)], Return(t),
            [op |-> "Unlink", name |-> threads[t].name, status |-> "OK"])

LockNext ==
  \/ \E name \in Paths, mode \in CreateModes :
       Budget(MaxLockSteps) /\ Create(name, mode)
  \/ \E t \in Threads, name \in Paths :
       Budget(MaxLockSteps) /\ GetRLock(t, name)
  \/ \E t \in Threads : Budget(MaxLockSteps) /\ GetRead(t)
  \/ \E t \in Threads : Budget(MaxLockSteps) /\ GetLockEvict(t)
  \/ \E t \in Threads : Budget(MaxLockSteps) /\ GetEvict(t)
  \/ \E t \in Threads : Budget(MaxLockSteps) /\ GetSelect(t)
  \/ \E t \in Threads : Budget(MaxLockSteps) /\ GetLockFill(t)
  \/ \E t \in Threads : Budget(MaxLockSteps) /\ GetFill(t)
  \/ \E t \in Threads, name \in Paths :
       Budget(MaxLockSteps) /\ DeleteQuery(t, name)
  \/ \E t \in Threads : Budget(MaxLockSteps) /\ DeleteTest(t)
  \/ \E t \in Threads : Budget(MaxLockSteps) /\ DeleteEvict(t)
  \/ Budget(MaxLockSteps) /\ Tick

LockSpec == Init /\ [][LockNext]_vars

\* C28: a thread reads the map of the metadata cache only while it holds
\* cacheLock, writes it only while it holds the write lock, and no two
\* threads write the map at the same time.
C28_MapLocked ==
  /\ \A t \in Threads : ReadsMap(t) => HoldsRead(t) \/ HoldsWrite(t)
  /\ \A t \in Threads : WritesMap(t) => HoldsWrite(t)
  /\ \A t \in Threads : \A u \in Threads \ {t} : ~(WritesMap(t) /\ WritesMap(u))

\* the same for the threads inside GetFiledata
C28_GetFiledataLocked ==
  /\ \A t \in Threads :
       threads[t].pc = "get_read" => HoldsRead(t) /\ CanRLock
  /\ \A t \in Threads : \A u \in Threads \ {t} :
       HoldsWrite(t) => ~HoldsWrite(u) /\ ~HoldsRead(u)

\* two threads write the map at the same time
C28_TwoWriters ==
  ~\E t \in Threads : \E u \in Threads \ {t} : WritesMap(t) /\ WritesMap(u)

\* --------------- OpenDir with its FindDir a step for every lock region and
\* for the walk, beside whole calls of Mkdir and Rmdir on another thread
\* OpenDir after FindDir: the rows under dirId are listed and cached
OpenDirRows(w, dir, dirId) ==
  LET rows == {r \in w.filesystem : r.directory = dirId}
  IN [w |-> OpenDirFill(w, dir, rows), err |-> "nil",
      ret |-> {[Mode |-> Unmarshal(r.metadata).Mode, Name |-> r.name] :
                 r \in rows}]

\* FindDir: the read of uuidCache under the read lock
FindCheck(t, dir) ==
  /\ At(t, "idle")
  /\ IF dir \in DOMAIN uuidCache
     THEN LET o == OpenDirRows(World, dir, uuidCache[dir])
          IN Commit(o.w, threads,
                    [op |-> "OpenDir", name |-> dir, status |-> Errno(o.err),
                     ret |-> o.ret])
     ELSE Commit(World, [threads EXCEPT ![t].pc = "find_walk", ![t].name = dir],
                 last)

\* FindDir: the SELECTs from the first segment to the last
FindWalk(t) ==
  /\ At(t, "find_walk")
  /\ LET dir == threads[t].name
         r == FindDirWalk(World, RootDir, dir, 1)
     IN IF r.err # "nil"
        THEN LET o == OpenDirRows(World, dir, RootDir)
             IN Commit(o.w, Return(t),
                       [op |-> "OpenDir", name |-> dir,
                        status |-> Errno(o.err), ret |-> o.ret])
        ELSE Commit(World,
                    [threads EXCEPT ![t].pc = "find_store", ![t].dirid = r.ret],
                    last)

\* FindDir: c.uuidCache[dir] = parent.String() under the write lock, and
\* the rest of OpenDir
FindStore(t) ==
  /\ At(t, "find_store")
  /\ LET dir == threads[t].name
         w == [World EXCEPT !.uuidCache = Put(@, dir, threads[t].dirid)]
         o == OpenDirRows(w, dir, threads[t].dirid)
     IN Commit(o.w, Return(t),
               [op |-> "OpenDir", name |-> dir, status |-> Errno(o.err),
                ret |-> o.ret])

UuidNext ==
  \/ \E path \in DirPaths, mode \in DirModes :
       Budget(MaxUuidSteps) /\ ParentIsDir(path) /\ MkdirCall(path, mode)
  \/ \E path \in DirPaths :
       Budget(MaxUuidSteps) /\ ParentIsDir(path) /\ RmdirCall(path)
  \/ \E t \in Threads, dir \in DirPaths :
       Budget(MaxUuidSteps) /\ IsDirAt(dir) /\ FindCheck(t, dir)
  \/ \E t \in Threads : Budget(MaxUuidSteps) /\ FindWalk(t)
  \/ \E t \in Threads : Budget(MaxUuidSteps) /\ FindStore(t)

UuidSpec == Init /\ [][UuidNext]_vars

\* an entry of the directory-id cache stays, with the id it has
EntriesKept ==
  \A d \in DOMAIN uuidCache :
    d \in DOMAIN uuidCache' /\ uuidCache'[d] = uuidCache[d]

\* C29: an entry of the directory-id cache, once inserted, is never given
\* another UUID and never removed, whatever the interleaving of FindDir
\* with Mkdir and Rmdir of its path.
C29_EntriesImmutable == [][EntriesKept]_vars

\* an entry of the directory-id cache is never removed
C29_NeverRemoved ==
  [][\A d \in DOMAIN uuidCache : d \in DOMAIN uuidCache']_vars

\* --------------------------------------------------- Read of a handle
ReadLens == {1, 3}

ReadNext ==
  \/ \E name \in Paths, mode \in CreateModes :
       Budget(MaxReadSteps) /\ Create(name, mode)
  \/ \E fid \in DOMAIN files, data \in WriteData, offset \in Offsets :
       Budget(MaxReadSteps) /\ HWrite(fid, data, offset)
  \/ \E fid \in DOMAIN files, size \in 0..MaxBody :
       Budget(MaxReadSteps) /\ HTruncate(fid, size)
  \/ \E fid \in DOMAIN files, n \in ReadLens, off \in 0..MaxBody :
       Budget(MaxReadSteps) /\ HRead(fid, n, off)

ReadSpec == Init /\ [][ReadNext]_vars

\* body[off : min(off + n, len(body))], empty from the end of the body on
Expected(body, n, off) ==
  IF off >= Len(body) THEN <<>>
  ELSE Slice(body, off, IF off + n > Len(body) THEN Len(body) ELSE off + n)

\* the Read returned OK with the bytes of the body it was asked for, and
\* the record is as it was
ReadAnswer ==
  /\ last.status = "OK"
  /\ last.out = Expected(last.file.Data, last.n, last.off)
  /\ files[last.fid] = last.file
  /\ attrs[last.file.Attr] = last.attr

\* C30: Read(buf, offset) of a handle returns OK with
\* body[offset : min(offset + len(buf), len(body))] and changes neither the
\* body, the attributes nor the dirty flag, at every offset, after any
\* Writes and Truncates; from the end of the body on the result is empty.
C30_Read ==
  last.op = "Read" => ReadAnswer

\* the same at the offsets up to the end of the body
C30_WithinBody ==
  (last.op = "Read" /\ last.off <= Len(last.file.Data)) => ReadAnswer

\* --------------------------------------------------- Open, failing reads
\* a body is written and flushed, the file gets a second name, and that
\* name is opened while the SELECT of the chunks fails
ReadFailNext ==
  \/ \E name \in Paths, mode \in CreateModes :
       Stage(1, Create(name, mode))
  \/ \E fid \in Handle(1), data \in Bodies \ {<<>>} :
       Stage(2, HWrite(fid, data, 0))
  \/ \E fid \in Handle(1) :
       Stage(3, HFlush(fid))
  \/ \E orig \in Paths : \E new \in Paths \ {orig} :
       Stage(4, Link(orig, new))
  \/ \E f \in ReadFaults :
       Len(hist) = 4 /\ Break(f) /\ UNCHANGED <<steps, hist>>
  \/ \E name \in Paths :
       Stage(5, Open(name))

ReadFailSpec == Init /\ [][ReadFailNext]_vars

\* the Open read the row of the path and then met a failing SELECT of chunks
ReadFailed ==
  /\ last.op = "Open" /\ ~LastPre.open /\ LastPre.row
  /\ LastPre.fault \in ReadFaults

\* C31: an Open whose read of the body chunks fails returns EIO, gives no
\* handle and puts no record into the open-file cache.
C31_OpenReadError ==
  ReadFailed =>
    /\ last.status = "EIO"
    /\ last.name \notin DOMAIN fsCache

\* the same Open never hands out a body other than the stored one
C31_NoPartialBody ==
  (ReadFailed /\ last.status = "OK") =>
    files[last.fid].Data = ReadData(World, RowAt(last.name).hash)

\* --------------------------------------------------- directories, counters
\* C32: Mkdir and Rmdir leave every fileref counter as it was, so Mkdir(p)
\* followed by Rmdir(p) does, and no counter is negative.
C32_DirCounters ==
  /\ (last.op \in {"Mkdir", "Rmdir"} /\ last.status = "OK") =>
       fileref = LastPre.tables[3]
  /\ \A h \in DOMAIN fileref : fileref[h] >= 0

\* --------------------------------------------------- a row is replaced
\* a file gets a body of its own; then its path is the target of a Symlink,
\* a Link or a Rename
OverwriteNext ==
  \/ \E name \in Paths, mode \in CreateModes :
       Before(MaxBefore) /\ Create(name, mode)
  \/ \E name \in Paths, mode \in CreateModes :
       Stage(1, Create(name, mode))
  \/ \E fid \in Handle(1), data \in Bodies \ {<<>>} :
       Stage(2, HWrite(fid, data, 0))
  \/ \E fid \in Handle(1) :
       Stage(3, HFlush(fid))
  \/ \E t \in Targets, name \in Paths :
       Stage(4, Symlink(t, name))
  \/ \E orig \in Paths : \E new \in Paths \ {orig} :
       Stage(4, Link(orig, new))
  \/ \E old \in Paths : \E new \in Paths \ {old} :
       Stage(4, FsRename(old, new))

OverwriteSpec == Init /\ [][OverwriteNext]_vars

\* the path the last Symlink, Link or Rename wrote a row for
Target == IF last.op = "Symlink" THEN last.name ELSE last.to

\* the rows that path had before the call
Replaced == PreIn(prev, Target).entry

\* rows of a table that carry the hash h, and the counter of h
RowsIn(rows, h) == Cardinality({r \in rows : r.hash = h})

RefsIn(refs, h) == IF h \in DOMAIN refs THEN refs[h] ELSE 0

\* C33: when a Rename, Link or Symlink succeeds on a path whose row held
\* a non-empty hash, the counter of that hash, which equalled the number of
\* rows with the hash before, equals it afterwards.
C33_ReplacedReleased ==
  (last.op \in {"Symlink", "Link", "Rename"} /\ last.status = "OK") =>
    \A r \in Replaced :
      (HashLen(r.hash) > 0
         /\ RefsIn(prev.fileref, r.hash) = RowsIn(prev.filesystem, r.hash)) =>
        RefsIn(fileref, r.hash) = RowsIn(filesystem, r.hash)

\* --------------------------------------------------- Flush, failing queries
FlushFailNext ==
  \/ \E name \in Paths, mode \in CreateModes :
       Budget(MaxFlushSteps) /\ Create(name, mode)
  \/ \E fid \in DOMAIN files, data \in WriteData :
       Budget(MaxFlushSteps) /\ HWrite(fid, data, 0)
  \/ \E fid \in DOMAIN files :
       Budget(MaxFlushSteps) /\ HFlush(fid)
  \/ \E f \in FlushFaults : Budget(MaxFlushSteps) /\ Break(f)

FlushFailSpec == Init /\ [][FlushFailNext]_vars

\* the last call was a Flush that ran UpdateFile
Flushed == last.op = "Flush" /\ last.db

\* C34: when UpdateFile returns an error the record's Hash is the hash of
\* the path's row, and no counter is lower than before unless another is
\* higher; when it succeeds, the hash it decrements is the one the row held.
C34_UpdateFileFails ==
  /\ (Flushed /\ last.status = "EIO") =>
       /\ HasRowAt(last.name) => files[last.fid].Hash = RowAt(last.name).hash
       /\ (\E h \in DOMAIN fileref : fileref[h] < RefsIn(last.refs, h)) =>
            \E h \in DOMAIN fileref : fileref[h] > RefsIn(last.refs, h)
  /\ (Flushed /\ last.status = "OK") =>
       \A h \in last.held : HashLen(h) > 0 => last.old = h

\* --------------------------------------------------- bodies, all chunks
\* the rows a WriteFileData of the body stores when nothing fails and no row
\* of its hash is there
Stored(data) ==
  Chunks(ShaSum(data), data, 0,
         IF BLOBSIZE > Len(data) THEN Len(data) ELSE BLOBSIZE)

\* C35: the filedata rows under the hash of a filesystem row, which
\* UpdateFile stored after WriteFileData returned the hash without error,
\* are the rows one WriteFileData of that body on an empty store produces,
\* also after an earlier WriteFileData of the body failed part-way.
C35_ChunksComplete ==
  \A r \in filesystem :
    r.hash.k = "sha" =>
      {d \in filedata : d.hash = r.hash} = Stored(r.hash.v)

\* ------------- Rmdir in two steps, beside whole calls of Create, Mkdir and
\* Symlink on another thread
\* Rmdir: GetFiledata, the test of the type, and the listing of OpenDir
RmdirList(t, path) ==
  /\ At(t, "idle")
  /\ LET g == GetFiledata(World, path)
     IN IF g.err # "nil"
        THEN Commit(g.w, threads,
                    [op |-> "Rmdir", name |-> path, status |-> "EIO"])
        ELSE IF ~IsDir(g.w.attrs[g.ret.Attr])
        THEN Commit(g.w, threads,
                    [op |-> "Rmdir", name |-> path, status |-> "ENOTDIR"])
        ELSE LET o == OpenDir(g.w, path)
             IN IF o.ret # {}
                THEN Commit(o.w, threads,
                            [op |-> "Rmdir", name |-> path,
                             status |-> "ENOTEMPTY"])
                ELSE Commit(o.w,
                            [threads EXCEPT ![t].pc = "rmdir_delete",
                                            ![t].name = path],
                            last)

\* Rmdir: DeleteFile of the directory's row
RmdirDelete(t) ==
  /\ At(t, "rmdir_delete")
  /\ LET path == threads[t].name
         d == DeleteFile(World, path)
     IN Commit(d.w, Return(t),
               [op |-> "Rmdir", name |-> path,
                status |-> IF d.err = "nil" THEN "OK" ELSE Errno(d.err),
                ids |-> {UuidString(r.hash) :
                           r \in PreIn(Snapshot, path).entry}])

RaceNext ==
  \/ \E path \in DirPaths, mode \in DirModes :
       Budget(MaxRaceSteps) /\ ParentIsDir(path) /\ MkdirCall(path, mode)
  \/ \E name \in DirPaths, mode \in CreateModes :
       Budget(MaxRaceSteps) /\ ParentIsDir(name) /\ CreateCall(name, mode)
  \/ \E name \in DirPaths, target \in Targets :
       Budget(MaxRaceSteps) /\ ParentIsDir(name) /\ SymlinkCall(target, name)
  \/ \E t \in Threads, path \in DirPaths :
       Budget(MaxRaceSteps) /\ IsDirAt(path) /\ RmdirList(t, path)
  \/ \E t \in Threads : Budget(MaxRaceSteps) /\ RmdirDelete(t)

RaceSpec == Init /\ [][RaceNext]_vars

\* C36: when Rmdir returns OK, whatever Create, Mkdir or Symlink ran beside
\* it, no row is left under the directory whose row it deleted.
C36_NoChildLeft ==
  (last.op = "Rmdir" /\ last.status = "OK") =>
    \A r \in filesystem : r.directory \notin last.ids

\* ----------------- Create and Mkdir of two threads, a step for every query
\* Mkdir: GetFiledata must fail
MkdirGet(t, path, mode) ==
  /\ At(t, "idle")
  /\ LET g == GetFiledata(World, path)
     IN IF g.err = "nil"
        THEN Commit(g.w, threads,
                    [op |-> "Mkdir", name |-> path, status |-> "EEXIST"])
        ELSE Commit(g.w,
                    [threads EXCEPT ![t].pc = "mkdir_insert", ![t].name = path,
                                    ![t].mode = OrBits(S_IFDIR, mode)],
                    last)

\* Mkdir: MakeDirectory
MkdirInsert(t) ==
  /\ At(t, "mkdir_insert")
  /\ LET attr == [ZeroAttr EXCEPT !.Mode = threads[t].mode]
         m == MakeDirectory(World, threads[t].name, attr)
     IN Commit(m.w, Return(t),
               [op |-> "Mkdir", name |-> threads[t].name,
                status |-> IF m.err = "nil" THEN "OK" ELSE "EIO"])

\* a step of thread t; the result of a call is logged when the call
\* returns, with whether every other thread was idle then
Logged(n, t, A) ==
  /\ steps < n /\ steps' = steps + 1
  /\ A
  /\ hist' = IF threads'[t].pc = "idle"
             THEN Append(hist,
                         last' @@ [alone |-> \A u \in Threads \ {t} :
                                                threads[u].pc = "idle"])
             ELSE hist

ExclModes == {420, 384}

ExclNext ==
  \/ \E t \in Threads, name \in Paths, mode \in ExclModes :
       Logged(MaxExclSteps, t, CreateGet(t, name, mode))
  \/ \E t \in Threads : Logged(MaxExclSteps, t, CreateRow(t))
  \/ \E t \in Threads : Logged(MaxExclSteps, t, CreateInsert(t))
  \/ \E t \in Threads : Logged(MaxExclSteps, t, CreateHandle(t))
  \/ \E t \in Threads, path \in Paths, mode \in DirModes :
       Logged(MaxExclSteps, t, MkdirGet(t, path, mode))
  \/ \E t \in Threads : Logged(MaxExclSteps, t, MkdirInsert(t))

ExclSpec == Init /\ [][ExclNext]_vars

\* C37: of the Create and Mkdir calls made for one path, which nothing
\* removes, one returns OK and every other one EEXIST, however the calls
\* overlap.
C37_Exclusive ==
  /\ \A i \in 1..Len(hist) : hist[i].status \in {"OK", "EEXIST"}
  /\ \A i \in 1..Len(hist) : \A j \in 1..Len(hist) \ {i} :
       hist[i].name = hist[j].name =>
         ~(hist[i].status = "OK" /\ hist[j].status = "OK")

\* the same when no two of the calls overlapped
C37_Sequential ==
  (\A k \in 1..Len(hist) : hist[k].alone) => C37_Exclusive

\* --------------------------------------------------- a handle after Unlink
\* Create, Write, Flush, Unlink of the path, then Write and Flush through
\* the handle of the Create
UnlinkedNext ==
  \/ \E name \in Paths, mode \in CreateModes :
       Stage(1, Create(name, mode))
  \/ \E fid \in Handle(1), data \in Bodies :
       Stage(2, HWrite(fid, data, 0))
  \/ \E fid \in Handle(1) :
       Stage(3, HFlush(fid))
  \/ \E name \in Paths :
       Stage(4, Unlink(name))
  \/ \E fid \in Handle(1), data \in WriteData :
       Stage(5, HWrite(fid, data, 0))
  \/ \E fid \in Handle(1) :
       Stage(6, HFlush(fid))

UnlinkedSpec == Init /\ [][UnlinkedNext]_vars

\* the path of the Create has been unlinked
Unlinked ==
  /\ Len(hist) >= 4 /\ hist[1].status = "OK"
  /\ hist[4].name = hist[1].name /\ hist[4].status = "OK"

\* C38: after Unlink returned OK the path has no row, also after a Write and
\* a Flush through a handle opened before, and that Flush changes no counter.
C38_StaysUnlinked ==
  Unlinked =>
    /\ ~HasRowAt(hist[1].name)
    /\ (Len(hist) >= 6 /\ hist[6].db) => fileref = hist[6].refs

\* the same up to the Flush
C38_UntilFlush ==
  (Unlinked /\ Len(hist) < 6) => ~HasRowAt(hist[1].name)

\* ---------------------------------------------------------- volume driver
\* a volume name, split at the dots
VolumeNames == {<<"1", "a">>, <<"2", "b">>, <<"x", "a">>, <<"a">>}

\* strconv.Atoi succeeds on these
Numerals == {"1", "2"}

\* what the driver does outside its table (unit files, systemd, mount
\* point) fails at one place or nowhere
MountExt == {"ok", "unit", "service"}
UnmountExt == {"ok", "stop", "remove"}

FindVolume(tbl, name) == name \in DOMAIN tbl

\* VolumeDb.CreateVolume: a new record starts with one client
CreateVolume(tbl, name) ==
  IF FindVolume(tbl, name)
  THEN tbl
  ELSE tbl @@ (name :> [Name |-> name, Hash |-> ShaSum(name), Clients |-> 1,
                        Owner |-> name[1], Environment |-> name[2]])

\* UPDATE mount SET clients=clients+1 / clients-1 WHERE name=?
incrementClients(tbl, name) ==
  IF FindVolume(tbl, name) THEN [tbl EXCEPT ![name].Clients = @ + 1] ELSE tbl

decrementClients(tbl, name) ==
  IF FindVolume(tbl, name) THEN [tbl EXCEPT ![name].Clients = @ - 1] ELSE tbl

\* VolumeDb.DeleteVolume on a record that exists
DeleteVolume(tbl, name) ==
  IF tbl[name].Clients = 0
  THEN [n \in DOMAIN tbl \ {name} |-> tbl[n]]
  ELSE tbl

\* CassFsDriver.create: the table and the error, if any
DriverCreate(tbl, name, ext) ==
  IF Len(name) # 2 THEN [tbl |-> tbl, err |-> "name"]
  ELSE IF name[1] \notin Numerals THEN [tbl |-> tbl, err |-> "owner"]
  ELSE LET t1 == CreateVolume(tbl, name)
       IN IF t1[name].Clients = 1 /\ ext = "unit"
          THEN [tbl |-> t1, err |-> "unit"]
          ELSE [tbl |-> t1, err |-> "none"]

\* a call of the driver leaves the filesystem engine alone
Driver(tbl, l) ==
  /\ mount' = tbl
  /\ last' = l
  /\ UNCHANGED <<filesystem, filedata, fileref, fileCache, uuidCache, fsCache,
                 files, attrs, hopen, nextUuid, now, threads, calls, fault,
                 prev>>

\* CassFsDriver.Mount
DriverMount(name, ext) ==
  LET c == IF FindVolume(mount, name)
           THEN [tbl |-> mount, err |-> "none"]
           ELSE DriverCreate(mount, name, ext)
      t2 == incrementClients(c.tbl, name)
      l == [op |-> "Mount", name |-> name, ext |-> ext]
  IN IF c.err # "none"
     THEN Driver(c.tbl, l @@ [status |-> "error"])
     ELSE IF ext = "service"
     THEN Driver(t2, l @@ [status |-> "error"])
     ELSE Driver(t2, l @@ [status |-> "OK"])

\* CassFsDriver.Unmount: mount.Hash of a volume that FindVolume did not
\* find is a nil dereference
DriverUnmount(name, ext) ==
  LET l == [op |-> "Unmount", name |-> name, ext |-> ext]
  IN IF ~FindVolume(mount, name)
     THEN Driver(mount, l @@ [status |-> "panic"])
     ELSE IF ext = "stop"
     THEN Driver(mount, l @@ [status |-> "error"])
     ELSE IF ext = "remove"
     THEN Driver(decrementClients(mount, name), l @@ [status |-> "error"])
     ELSE Driver(decrementClients(mount, name), l @@ [status |-> "OK"])

\* CassFsDriver.Remove: mount.Clients in DeleteVolume is a nil dereference
\* for a volume that FindVolume did not find
DriverRemove(name) ==
  LET l == [op |-> "Remove", name |-> name, ext |-> "ok"]
  IN IF ~FindVolume(mount, name)
     THEN Driver(mount, l @@ [status |-> "panic"])
     ELSE Driver(DeleteVolume(mount, name), l @@ [status |-> "OK"])

\* a call of the driver is recorded with its result
Served(A) ==
  /\ steps < MaxVolSteps /\ steps' = steps + 1
  /\ A
  /\ hist' = Append(hist, last')

VolumeNext ==
  \/ \E name \in VolumeNames, ext \in MountExt :
       Served(DriverMount(name, ext))
  \/ \E name \in VolumeNames, ext \in UnmountExt :
       Served(DriverUnmount(name, ext))
  \/ \E name \in VolumeNames :
       Served(DriverRemove(name))

VolumeSpec == Init /\ [][VolumeNext]_vars

\* the successful requests op for the volume name
Succeeded(op, name) ==
  Cardinality({i \in DOMAIN hist : /\ hist[i].op = op
                                   /\ hist[i].name = name
                                   /\ hist[i].status = "OK"})

ClientCount ==
  \A name \in DOMAIN mount :
    mount[name].Clients = Succeeded("Mount", name) - Succeeded("Unmount", name)

RemoveDeletes ==
  \A i \in DOMAIN hist :
    (/\ i = Len(hist) /\ hist[i].op = "Remove" /\ hist[i].status = "OK"
     /\ Succeeded("Mount", hist[i].name) = Succeeded("Unmount", hist[i].name))
      => ~FindVolume(mount, hist[i].name)

NoCrash == \A i \in DOMAIN hist : hist[i].status # "panic"

\* C39: the stored client count of every volume is the number of successful
\* Mounts minus the number of successful Unmounts, a Remove after equally
\* many of both deletes the record, and no request crashes.
C39_VolumeDriver == ClientCount /\ RemoveDeletes /\ NoCrash

\* the parts of C39, one at a time
C39_ClientCount == ClientCount
C39_RemoveDeletes == RemoveDeletes
C39_NoCrash == NoCrash

====
